---- MODULE Spec2Model ----
(***************************************************************************)
(* A model of tools/roll_deps.py, Skia's Chromium DEPS roll script.        *)
(*                                                                         *)
(* Strings are sequences of tokens.  A token is either one whitespace      *)
(* character (" ", "\n", "\t"), one of the characters "(" and ")", or a    *)
(* run of characters that holds none of those.  A git repository is its    *)
(* HEAD, its local branches, its origin/master ref, the modified and the   *)
(* staged paths of its working tree and its stash stack.  Every git        *)
(* command the script runs with check_call / check_output is one step that *)
(* either succeeds or exits non-zero.                                      *)
(***************************************************************************)
EXTENDS Integers, Sequences, FiniteSets, TLC

VARIABLES
    config,         \* DepsRollConfig
    args,           \* roll_deps(config, revision, git_hash): [revision, git_hash]
    pc,             \* position in roll_deps / __enter__ / the body / __exit__
    exc,            \* the exception in flight ("None" when there is none)
    cwd,            \* the process working directory
    saved_cwd,      \* roll_deps' local `cwd`
    master_hash,    \* roll_deps' local `master_hash`
    message,        \* roll_deps' local `message`
    branch,         \* roll_deps' local `branch`
    whitespace_cl,  \* roll_deps' local `whitespace_cl`
    result,         \* roll_deps' return value (deps_cl, whitespace_cl)
    cur,            \* which GitBranchCLUpload `codereview` is bound to (0: none)
    txn,            \* the two GitBranchCLUpload objects' attributes
    add_idx,        \* position of __exit__'s loop over _file_list
    head,           \* chromium checkout: HEAD
    branches,       \* chromium checkout: local branch -> commit
    origin_master,  \* chromium checkout: refs/remotes/origin/master
    tree,           \* commit -> content of DEPS in that commit
    deps,           \* content of DEPS in the working tree
    worktree,       \* paths modified and not staged
    index,          \* paths staged
    stash,          \* the stash stack, top first
    log,            \* every command run and every line printed, in order
    pre,            \* the checkout as it was when the current __enter__ began
    called,         \* the process and the checkout as they were when roll_deps was called
    lpc,            \* position in find_revision_and_hash / create_temp_skia_clone
    lexc,           \* the exception in flight there ("None" when there is none)
    revision_arg,   \* the revision find_revision_and_hash is called with
                    \* (<<>> for None, else <<n>>)
    revision,       \* find_revision_and_hash's `revision`, which it reassigns
    skia_dir,       \* find_revision_and_hash's `skia_dir`
    use_temp,       \* find_revision_and_hash's `use_temp`
    git_hash,       \* find_revision_and_hash's `git_hash`
    dirs,           \* the directories that exist
    skia_remote,    \* the Skia repository's master history, newest commit first
    skia_master,    \* origin/master's history as skia_dir holds it, newest first
    dpc,            \* position in change_skia_deps
    dexc,           \* the exception in flight there ("None" when there is none)
    manifest,       \* the lines of the file at depspath
    manifest_called,\* the lines it held when change_skia_deps was called
    temp_file,      \* the lines written to the temporary file
    tmpfiles,       \* the temporary files that exist
    line_no,        \* the line of depspath that is read next
    mpc,            \* position in main / find_hash_and_roll_deps
    options,        \* main's `options`
    status          \* the exit status of the process ("None" while it runs)

inputs == <<config, args, called>>
locals == <<saved_cwd, master_hash, message, branch, whitespace_cl, result>>
repo == <<head, branches, origin_master, tree, deps, worktree, index, stash>>
rollVars == <<inputs, locals, repo, pc, exc, cwd, cur, txn, add_idx, log, pre>>
locator == <<lpc, lexc, revision_arg, revision, skia_dir, use_temp, git_hash, dirs,
             skia_remote, skia_master>>
rewriter == <<dpc, dexc, manifest, manifest_called, temp_file, tmpfiles, line_no>>
driver == <<mpc, options, status>>
vars == <<rollVars, locator, rewriter, driver>>

-----------------------------------------------------------------------------
(* Strings *)

None == <<"None">>

Whitespace == {" ", "\n", "\t"}

RECURSIVE lstrip(_)
lstrip(s) == IF s # <<>> /\ Head(s) \in Whitespace THEN lstrip(Tail(s)) ELSE s

RECURSIVE rstrip(_)
rstrip(s) ==
    IF s # <<>> /\ s[Len(s)] \in Whitespace
    THEN rstrip(SubSeq(s, 1, Len(s) - 1))
    ELSE s

strip(s) == rstrip(lstrip(s))

\* s.split('\n')[0]
FirstLine(s) ==
    IF \E i \in DOMAIN s : s[i] = "\n"
    THEN SubSeq(s, 1, (CHOOSE i \in DOMAIN s :
                          s[i] = "\n" /\ \A k \in 1..(i - 1) : s[k] # "\n") - 1)
    ELSE s

replace(s, old, new) == [i \in DOMAIN s |-> IF s[i] = old THEN new ELSE s[i]]

strip_output(out) == strip(out)

branch_name(m) == replace(rstrip(FirstLine(lstrip(m))), " ", "_")

\* re.search('https?://[^) ]+', s): the leftmost match, greedy; None if none.
UrlSchemes == {"http://", "https://"}
UrlStops == {")", " "}
UrlAt(s, i) == i < Len(s) /\ s[i] \in UrlSchemes /\ s[i + 1] \notin UrlStops
UrlEnd(s, i) ==
    CHOOSE j \in (i + 1)..Len(s) :
        /\ \A k \in (i + 1)..j : s[k] \notin UrlStops
        /\ (j = Len(s) \/ s[j + 1] \in UrlStops)
\* search_url, were the last match taken instead of the first.
search_url_last(s) ==
    IF \E i \in DOMAIN s : UrlAt(s, i)
    THEN LET i == CHOOSE i \in DOMAIN s :
                      UrlAt(s, i) /\ \A k \in (i + 1)..Len(s) : ~UrlAt(s, k)
         IN  SubSeq(s, i, UrlEnd(s, i))
    ELSE None

search_url(s) ==
    IF \E i \in DOMAIN s : UrlAt(s, i)
    THEN LET i == CHOOSE i \in DOMAIN s :
                      UrlAt(s, i) /\ \A k \in 1..(i - 1) : ~UrlAt(s, k)
         IN  SubSeq(s, i, UrlEnd(s, i))
    ELSE None

\* re.search(r'Last Changed Rev: ([0-9]+)\W', svn_info).group(1); None if none.
IsDigits(tok) == tok \in {"100", "101"}
SvnAt(s, i) ==
    /\ i + 3 <= Len(s)
    /\ SubSeq(s, i, i + 1) = <<"Last Changed Rev:", " ">>
    /\ IsDigits(s[i + 2])
    /\ s[i + 3] \in Whitespace
search_svn(s) ==
    IF \E i \in DOMAIN s : SvnAt(s, i)
    THEN s[(CHOOSE i \in DOMAIN s :
                SvnAt(s, i) /\ \A k \in 1..(i - 1) : ~SvnAt(s, k)) + 2]
    ELSE "None"

Boilerplate ==
    <<"This", " ", "CL", " ", "was", " ", "created", " ", "by", " ",
      "Skia's", " ", "roll_deps.py", " ", "script.">>

\* The first 8 characters of a commit hash.
First8(h) ==
    CASE h = "c0ffee00aaaaaaaa" -> "c0ffee00"
      [] h = "deadbeefbbbbbbbb" -> "deadbeef"
      [] OTHER -> h
Slice8(s) == IF s = <<>> THEN <<>> ELSE <<First8(s[1])>>

WhitespaceMessage(mh) ==
    <<"whitespace", " ", "change", " ">> \o Slice8(mh) \o <<"\n", "\n">>
        \o Boilerplate \o <<"\n">>

RollMessage(rev, url) ==
    <<"roll", " ", "skia", " ", "DEPS", " ", "to", " ", ToString(rev),
      "\n", "\n">> \o Boilerplate
        \o (IF url = None THEN <<>> ELSE <<"\n", "\n", "control:", " ">> \o url)

\* '%s\n    branch: %s' % (issue, branch)
Annotate(issue, b) ==
    issue \o <<"\n", " ", " ", " ", " ", "branch:", " ">> \o b

-----------------------------------------------------------------------------
(* The chromium checkout *)

master == <<"master">>
default_branch_name == <<"autogenerated_deps_roll_branch">>
git == <<"git">>

WhitespaceFile == <<"build/whitespace_file.txt">>
DepsFile == <<"DEPS">>
LocalEdit == <<"local_edit.cc">>

UpstreamTips == {"c0ffee00aaaaaaaa", "deadbeefbbbbbbbb"}
LocalMaster == "0123456789abcdef"
UserCommit == "feedface00000000"
\* The commit that the n-th `git commit` of a run makes.
NewCommit(n) ==
    CASE n = 1 -> "5ca1ab1e00000001"
      [] n = 2 -> "5ca1ab1e00000002"
      [] n = 3 -> "5ca1ab1e00000003"
      [] OTHER -> "5ca1ab1e00000004"

OnBranch(b) == [kind |-> "branch", ref |-> b]
Detached(c) == [kind |-> "detached", ref |-> <<c>>]
HeadCommit == IF head.kind = "branch" THEN branches[head.ref] ELSE head.ref[1]

\* What `git checkout <target>` resolves target to: a branch, else a commit.
Resolvable(target) == target \in DOMAIN branches \/ target[1] \in DOMAIN tree
Resolve(target) ==
    IF target \in DOMAIN branches THEN OnBranch(target) ELSE Detached(target[1])
CommitOf(h) == IF h.kind = "branch" THEN branches[h.ref] ELSE h.ref[1]

SetBranch(bs, b, c) ==
    [x \in DOMAIN bs \cup {b} |-> IF x = b THEN c ELSE bs[x]]
DropBranch(bs, b) == [x \in DOMAIN bs \ {b} |-> bs[x]]
SetTree(tr, c, content) ==
    [x \in DOMAIN tr \cup {c} |-> IF x = c THEN content ELSE tr[x]]

Snapshot ==
    [head |-> head, commit |-> HeadCommit, branches |-> branches,
     worktree |-> worktree, index |-> index, stash |-> stash, deps |-> deps]

-----------------------------------------------------------------------------
(* The log of commands and printed lines *)

Exec(ph, argv, ok, quiet, out) ==
    [tx |-> cur, phase |-> ph, kind |-> "exec", argv |-> argv, ok |-> ok,
     quiet |-> quiet, out |-> out]
Stdout(ph, line) ==
    [tx |-> cur, phase |-> ph, kind |-> "print", argv |-> line, ok |-> TRUE,
     quiet |-> FALSE, out |-> <<>>]

\* An argument list whose arguments are single tokens.
Cmd(words) == [i \in DOMAIN words |-> <<words[i]>>]

Logged(entries) == log' = log \o entries

\* How many times `git commit` has succeeded.
Committed ==
    Cardinality({i \in DOMAIN log : /\ log[i].kind = "exec"
                                    /\ log[i].ok
                                    /\ Len(log[i].argv) >= 2
                                    /\ log[i].argv[2] = <<"commit">>})

-----------------------------------------------------------------------------
(* Inputs *)

MaxBots == 2
BotNames == <<"linux", "mac", "win", "android_dbg">>
BotLists == {SubSeq(BotNames, 1, n) : n \in {0, MaxBots}}

\* option_parser.add_option('', '--search_depth', type='int', default=100, ...)
search_depth_default == 100

Revisions == {12345, 12346}
GitHashes == {<<"0a1b2c3d4e5f6789">>}

ChromiumPath == "/src/chromium"
CallerDir == "/home/user"

\* What `git cl issue` may print.
IssueOutputs ==
    { <<"Issue", " ", "number:", " ", "271", " ", "(", "https://",
        "codereview.chromium.org/271", ")", "\n">>,
      <<"Issue", " ", "number:", " ", "None", " ", "(", "None", ")", "\n">>,
      <<"see", " ", "https://", ")", " ", "http://", "a", "/1", " ",
        "https://", "b/2", "\n">> }

\* What `git svn info` may print.
SvnInfoOutputs ==
    { <<"Path:", " ", ".", "\n", "Last Changed Rev:", " ", "100", "\n">>,
      <<"Path:", " ", ".", "\n", "Last Changed Rev:", " ", "101", "\n">>,
      <<"Path:", " ", ".", "\n">> }

\* The content of DEPS: its two fields.
DepsContent(rev, h) == [skia_revision |-> rev, skia_hash |-> h]
OldDeps == DepsContent("12345", <<"0a1b2c3d4e5f6789">>)
UserDeps == DepsContent("12000", <<"00112233445566aa">>)

\* GitBranchCLUpload.__init__
NewGitBranchCLUpload(msg, set_branch_name) ==
    [message |-> msg, file_list |-> <<>>, branch_name |-> set_branch_name,
     stash |-> FALSE, original_branch |-> None, svn_info |-> "None",
     issue |-> None]

\* The branches a checkout may hold beside master, and where HEAD may be.
ControlBranch(tip) == branch_name(WhitespaceMessage(<<tip>>))
Feature == <<"feature">>
Leftovers == {default_branch_name} \cup {ControlBranch(t) : t \in UpstreamTips}
BranchesWith(extra) ==
    [b \in {master, Feature} \cup extra |->
        IF b = master THEN LocalMaster ELSE UserCommit]
\* A checkout without leftovers of earlier runs, on master, on a branch of the
\* user's or on a detached commit; one with leftovers, on master, on the
\* default branch or on a branch an earlier run has saved.
InitCheckouts ==
    { [branches |-> BranchesWith({}), head |-> h] :
        h \in {OnBranch(master), OnBranch(Feature), Detached(UserCommit)} }
    \cup
    { [branches |-> BranchesWith(Leftovers), head |-> h] :
        h \in {OnBranch(master), OnBranch(default_branch_name),
               OnBranch(ControlBranch("c0ffee00aaaaaaaa"))} }

\* find_revision_and_hash has not been called.
LocatorIdle ==
    /\ lpc = "idle"
    /\ lexc = "None"
    /\ revision_arg = <<>>
    /\ revision = <<>>
    /\ skia_dir = "None"
    /\ use_temp = FALSE
    /\ git_hash = None
    /\ dirs = {ChromiumPath, CallerDir}
    /\ skia_remote = <<>>
    /\ skia_master = <<>>

\* change_skia_deps has not been called.
RewriterIdle ==
    /\ dpc = "idle"
    /\ dexc = "None"
    /\ manifest = <<>>
    /\ manifest_called = <<>>
    /\ temp_file = <<>>
    /\ tmpfiles = {}
    /\ line_no = 1
\* The caller is not main.
DriverIdle ==
    /\ mpc = "idle"
    /\ options = <<>>
    /\ status = "None"

Init ==
    /\ config \in [save_branches : BOOLEAN, skip_cl_upload : BOOLEAN,
                   verbose : BOOLEAN, cl_bot_list : BotLists,
                   chromium_path : {ChromiumPath},
                   skia_git_checkout_path : {""},
                   search_depth : {search_depth_default},
                   git : {"git"}]
    /\ LocatorIdle
    /\ RewriterIdle
    /\ DriverIdle
    /\ args \in [revision : Revisions, git_hash : GitHashes]
    /\ pc = "start"
    /\ exc = "None"
    /\ cwd = CallerDir
    /\ saved_cwd = "None"
    /\ master_hash = None
    /\ message = None
    /\ branch = None
    /\ whitespace_cl = None
    /\ result = <<>>
    /\ cur = 0
    /\ txn = [t \in 1..2 |-> NewGitBranchCLUpload(None, None)]
    /\ add_idx = 1
    /\ \E c \in InitCheckouts : branches = c.branches /\ head = c.head
    /\ origin_master = "c0ffee00aaaaaaaa"
    /\ tree = [c \in UpstreamTips \cup {LocalMaster, UserCommit} |->
                  IF c = UserCommit THEN UserDeps ELSE OldDeps]
    /\ deps = tree[CommitOf(head)]
    /\ worktree \in {{}, {LocalEdit}}
    /\ index = {}
    /\ stash = <<[worktree |-> {<<"older_edit.cc">>}, index |-> {}]>>
    /\ log = <<>>
    /\ pre = Snapshot
    /\ called = [cwd |-> cwd, checkout |-> Snapshot]

-----------------------------------------------------------------------------
(* Control flow *)

Cur == txn[cur]
SetCur(field, value) == txn' = [txn EXCEPT ![cur][field] = value]

\* The with statement ends: the body's exception, if any, is raised again
\* (__exit__ returns None), else the statement after the with block is next.
WithEnd ==
    IF exc # "None" THEN "finally"
    ELSE IF cur = 1 THEN "after_control" ELSE "after_manifest"

\* Raise, were the exception swallowed and the with statement left normally.
RaiseSwallowed(e) ==
    /\ exc' = exc
    /\ pc' = IF cur = 1 THEN "after_control" ELSE "after_manifest"

\* An exception leaves the try block of roll_deps: its finally clause is next.
Raise(e) == exc' = e /\ pc' = "finally"

-----------------------------------------------------------------------------
(* roll_deps, up to the first transaction *)

\* cwd = os.getcwd(); os.chdir(config.chromium_path)
RollChdir ==
    /\ pc = "start"
    /\ saved_cwd' = cwd
    /\ \E ok \in BOOLEAN :
          IF ok
          THEN cwd' = config.chromium_path /\ pc' = "fetch" /\ exc' = exc
          ELSE cwd' = cwd /\ pc' = "raised" /\ exc' = "OSError"
    /\ UNCHANGED <<locator, rewriter, driver, inputs, repo, master_hash, message, branch, whitespace_cl,
                   result, cur, txn, add_idx, log, pre>>

\* check_call([git, 'fetch', '-q', 'origin'])
RollFetch ==
    /\ pc = "fetch"
    /\ \E ok \in BOOLEAN :
          /\ Logged(<<Exec("roll", Cmd(<<"git", "fetch", "-q", "origin">>),
                           ok, FALSE, <<>>)>>)
          /\ IF ok
             THEN /\ origin_master' \in UpstreamTips
                  /\ pc' = "show_ref"
                  /\ exc' = exc
             ELSE /\ origin_master' = origin_master
                  /\ Raise("CalledProcessError")
    /\ UNCHANGED <<locator, rewriter, driver, inputs, locals, head, branches, tree, deps, worktree, index,
                   stash, cwd, cur, txn, add_idx, pre>>

\* master_hash = strip_output([git, 'show-ref', 'origin/master', '--hash'])
RollShowRef ==
    /\ pc = "show_ref"
    /\ \E ok \in BOOLEAN :
          LET out == IF ok THEN <<origin_master, "\n">> ELSE <<>> IN
          /\ Logged(<<Exec("roll",
                           Cmd(<<"git", "show-ref", "origin/master", "--hash">>),
                           ok, FALSE, out)>>)
          /\ IF ok
             THEN /\ master_hash' = strip_output(out)
                  /\ pc' = "make_control"
                  /\ exc' = exc
             ELSE /\ master_hash' = master_hash
                  /\ Raise("CalledProcessError")
    /\ UNCHANGED <<locator, rewriter, driver, inputs, repo, saved_cwd, message, branch, whitespace_cl,
                   result, cwd, cur, txn, add_idx, pre>>

\* message = 'whitespace change ...'; branch = ...;
\* codereview = GitBranchCLUpload(config, message, branch)
RollControl ==
    /\ pc = "make_control"
    /\ message' = WhitespaceMessage(master_hash)
    /\ branch' = IF config.save_branches THEN branch_name(message') ELSE None
    /\ txn' = [txn EXCEPT ![1] = NewGitBranchCLUpload(message', branch')]
    /\ cur' = 1
    /\ pc' = "enter"
    /\ UNCHANGED <<locator, rewriter, driver, inputs, repo, saved_cwd, master_hash, whitespace_cl, result,
                   exc, cwd, add_idx, log, pre>>

-----------------------------------------------------------------------------
(* GitBranchCLUpload.__enter__ *)

\* self._stash = has_diff()
EnterHasDiff ==
    /\ pc = "enter"
    /\ LET dirty == worktree \cup index # {} IN
       /\ SetCur("stash", dirty)
       /\ Logged(<<Exec("enter", Cmd(<<"git", "diff", "--quiet", "HEAD">>),
                        ~dirty, FALSE, <<>>)>>)
       /\ pc' = IF dirty THEN "enter_stash" ELSE "enter_orig"
    /\ pre' = Snapshot
    /\ UNCHANGED <<locator, rewriter, driver, inputs, locals, repo, exc, cwd, cur, add_idx>>

\* check_call([git, 'stash', 'save'])
EnterStash ==
    /\ pc = "enter_stash"
    /\ \E ok \in BOOLEAN :
          /\ Logged(<<Exec("enter", Cmd(<<"git", "stash", "save">>),
                           ok, FALSE, <<>>)>>)
          /\ IF ok
             THEN /\ stash' = <<[worktree |-> worktree, index |-> index]>>
                                  \o stash
                  /\ worktree' = {}
                  /\ index' = {}
                  /\ pc' = "enter_orig"
                  /\ exc' = exc
             ELSE /\ UNCHANGED <<stash, worktree, index>>
                  /\ Raise("CalledProcessError")
    /\ UNCHANGED <<locator, rewriter, driver, inputs, locals, head, branches, origin_master, tree, deps,
                   cwd, cur, txn, add_idx, pre>>

\* self._original_branch = `git symbolic-ref --short HEAD`, or, when that
\* fails (HEAD is detached), `git rev-parse HEAD`
EnterOriginalBranch ==
    /\ pc = "enter_orig"
    /\ LET symref == Cmd(<<"git", "symbolic-ref", "--short", "HEAD">>)
           revparse == Cmd(<<"git", "rev-parse", "HEAD">>)
       IN  IF head.kind = "branch"
           THEN /\ SetCur("original_branch",
                          strip_output(head.ref \o <<"\n">>))
                /\ Logged(<<Exec("enter", symref, TRUE, FALSE,
                                 head.ref \o <<"\n">>)>>)
           ELSE /\ SetCur("original_branch",
                          strip_output(<<HeadCommit, "\n">>))
                /\ Logged(<<Exec("enter", symref, FALSE, FALSE, <<>>),
                            Exec("enter", revparse, TRUE, FALSE,
                                 <<HeadCommit, "\n">>)>>)
    /\ pc' = "enter_exists"
    /\ UNCHANGED <<locator, rewriter, driver, inputs, locals, repo, exc, cwd, cur, add_idx, pre>>

\* if not self._branch_name: self._branch_name = default_branch_name
\* if branch_exists(self._branch_name): ...
EnterBranchExists ==
    /\ pc = "enter_exists"
    /\ LET name == IF Cur.branch_name \in {None, <<>>}
                   THEN default_branch_name ELSE Cur.branch_name
           exists == name \in DOMAIN branches
       IN  /\ SetCur("branch_name", name)
           /\ Logged(<<Exec("enter",
                            Cmd(<<"git", "show-ref", "--quiet">>) \o <<name>>,
                            exists, FALSE, <<>>)>>)
           /\ pc' = IF exists THEN "enter_co_master" ELSE "enter_co_new"
    /\ UNCHANGED <<locator, rewriter, driver, inputs, locals, repo, exc, cwd, cur, add_idx, pre>>

\* check_call([git, 'checkout', '-q', 'master'])
EnterCheckoutMaster ==
    /\ pc = "enter_co_master"
    /\ \E ok \in (IF Resolvable(master) THEN BOOLEAN ELSE {FALSE}) :
          /\ Logged(<<Exec("enter",
                           Cmd(<<"git", "checkout", "-q">>) \o <<master>>,
                           ok, FALSE, <<>>)>>)
          /\ IF ok
             THEN /\ head' = Resolve(master)
                  /\ deps' = tree[CommitOf(head')]
                  /\ pc' = "enter_del"
                  /\ exc' = exc
             ELSE /\ UNCHANGED <<head, deps>>
                  /\ Raise("CalledProcessError")
    /\ UNCHANGED <<locator, rewriter, driver, inputs, locals, branches, origin_master, tree, worktree,
                   index, stash, cwd, cur, txn, add_idx, pre>>

\* check_call([git, 'branch', '-q', '-D', self._branch_name])
EnterDeleteBranch ==
    /\ pc = "enter_del"
    /\ \E ok \in (IF head # OnBranch(Cur.branch_name)
                     /\ Cur.branch_name \in DOMAIN branches
                  THEN BOOLEAN ELSE {FALSE}) :
          /\ Logged(<<Exec("enter",
                           Cmd(<<"git", "branch", "-q", "-D">>)
                               \o <<Cur.branch_name>>,
                           ok, FALSE, <<>>)>>)
          /\ IF ok
             THEN /\ branches' = DropBranch(branches, Cur.branch_name)
                  /\ pc' = "enter_co_new"
                  /\ exc' = exc
             ELSE /\ branches' = branches
                  /\ Raise("CalledProcessError")
    /\ UNCHANGED <<locator, rewriter, driver, inputs, locals, head, origin_master, tree, deps, worktree,
                   index, stash, cwd, cur, txn, add_idx, pre>>

\* EnterCheckoutNew, were the new branch started at HEAD.
EnterCheckoutNewFromHead ==
    /\ pc = "enter_co_new"
    /\ \E ok \in (IF Cur.branch_name \in DOMAIN branches
                  THEN {FALSE} ELSE BOOLEAN) :
          /\ Logged(<<Exec("enter",
                           Cmd(<<"git", "checkout", "-q", "-b">>)
                               \o <<Cur.branch_name, <<"origin/master">> >>,
                           ok, FALSE, <<>>)>>)
          /\ IF ok
             THEN /\ branches' = SetBranch(branches, Cur.branch_name,
                                           HeadCommit)
                  /\ head' = OnBranch(Cur.branch_name)
                  /\ deps' = deps
                  /\ pc' = "enter_svn"
                  /\ exc' = exc
             ELSE /\ UNCHANGED <<branches, head, deps>>
                  /\ Raise("CalledProcessError")
    /\ UNCHANGED <<locator, rewriter, driver, inputs, locals, origin_master, tree, worktree, index, stash,
                   cwd, cur, txn, add_idx, pre>>

\* check_call([git, 'checkout', '-q', '-b', self._branch_name, 'origin/master'])
EnterCheckoutNew ==
    /\ pc = "enter_co_new"
    /\ \E ok \in (IF Cur.branch_name \in DOMAIN branches
                  THEN {FALSE} ELSE BOOLEAN) :
          /\ Logged(<<Exec("enter",
                           Cmd(<<"git", "checkout", "-q", "-b">>)
                               \o <<Cur.branch_name, <<"origin/master">> >>,
                           ok, FALSE, <<>>)>>)
          /\ IF ok
             THEN /\ branches' = SetBranch(branches, Cur.branch_name,
                                           origin_master)
                  /\ head' = OnBranch(Cur.branch_name)
                  /\ deps' = tree[origin_master]
                  /\ pc' = "enter_svn"
                  /\ exc' = exc
             ELSE /\ UNCHANGED <<branches, head, deps>>
                  /\ Raise("CalledProcessError")
    /\ UNCHANGED <<locator, rewriter, driver, inputs, locals, origin_master, tree, worktree, index, stash,
                   cwd, cur, txn, add_idx, pre>>

\* svn_info = subprocess.check_output(['git', 'svn', 'info'])
\* svn_info_search = re.search(...); assert svn_info_search
\* self._svn_info = svn_info_search.group(1)
EnterSvnInfo ==
    /\ pc = "enter_svn"
    /\ \/ /\ Logged(<<Exec("enter", Cmd(<<"git", "svn", "info">>),
                           FALSE, FALSE, <<>>)>>)
          /\ Raise("CalledProcessError")
          /\ txn' = txn
       \/ \E out \in SvnInfoOutputs :
             /\ Logged(<<Exec("enter", Cmd(<<"git", "svn", "info">>),
                              TRUE, FALSE, out)>>)
             /\ IF search_svn(out) = "None"
                THEN Raise("AssertionError") /\ txn' = txn
                ELSE /\ SetCur("svn_info", search_svn(out))
                     /\ pc' = "body"
                     /\ exc' = exc
    /\ UNCHANGED <<locator, rewriter, driver, inputs, locals, repo, cwd, cur, add_idx, pre>>

-----------------------------------------------------------------------------
(* The bodies of the two with blocks *)

\* change_skia_deps: the content of DEPS with its two fields rewritten
change_skia_deps(rev, hash, content) ==
    DepsContent(ToString(rev), hash)

\* with open('build/whitespace_file.txt', 'a') as output_stream:
\*     output_stream.write('\nCONTROL\n')
\* codereview.stage_for_commit('build/whitespace_file.txt')
BodyControl ==
    /\ pc = "body"
    /\ cur = 1
    /\ \/ /\ worktree' = worktree \cup {WhitespaceFile}
          /\ SetCur("file_list", Append(Cur.file_list, WhitespaceFile))
          /\ exc' = exc
       \/ /\ worktree' \in {worktree, worktree \cup {WhitespaceFile}}
          /\ txn' = txn
          /\ exc' = "IOError"
    /\ pc' = "exit"
    /\ add_idx' = 1
    /\ UNCHANGED <<locator, rewriter, driver, inputs, locals, head, branches, origin_master, tree, deps,
                   index, stash, cwd, cur, log, pre>>

\* change_skia_deps(revision, git_hash, 'DEPS')
\* codereview.stage_for_commit('DEPS')
BodyManifest ==
    /\ pc = "body"
    /\ cur = 2
    /\ \/ /\ deps' = change_skia_deps(args.revision, args.git_hash, deps)
          /\ worktree' = IF deps' # deps THEN worktree \cup {DepsFile}
                         ELSE worktree
          /\ SetCur("file_list", Append(Cur.file_list, DepsFile))
          /\ exc' = exc
       \/ /\ UNCHANGED <<deps, worktree, txn>>
          /\ exc' = "IOError"
    /\ pc' = "exit"
    /\ add_idx' = 1
    /\ UNCHANGED <<locator, rewriter, driver, inputs, locals, head, branches, origin_master, tree, index,
                   stash, cwd, cur, log, pre>>

-----------------------------------------------------------------------------
(* GitBranchCLUpload.__exit__ *)

git_cl ==
    Cmd(<<"git", "cl", "upload", "-f", "--cc=skia-team@google.com",
          "--bypass-hooks", "--bypass-watchlists">>)

BotArgs(bots) ==
    [i \in 1..(2 * Len(bots)) |->
        IF i % 2 = 1 THEN <<"-b">> ELSE <<bots[i \div 2]>>]

\* git_try, were the target revision of the roll passed as --revision.
git_try_target(t) ==
    Cmd(<<"git", "cl", "try", "--revision", ToString(args.revision)>>)
        \o BotArgs(config.cl_bot_list)

git_try(t) ==
    Cmd(<<"git", "cl", "try", "--revision", t.svn_info>>)
        \o BotArgs(config.cl_bot_list)

\* AfterDelete, were the stash left unpopped.
AfterDeleteNoPop(t) == WithEnd

\* After the deletion of the working branch, if it was to be deleted.
AfterDelete(t) == IF t.stash THEN "exit_pop" ELSE WithEnd

\* AfterCheckout, were __exit__ to return right after the checkout.
AfterCheckoutNoCleanup(t) == WithEnd

\* AfterCheckout, were the working branch deleted whatever its name.
AfterCheckoutAlwaysDelete(t) == "exit_delete"

\* After the checkout of the restoration target.
AfterCheckout(t) ==
    IF default_branch_name = t.branch_name THEN "exit_delete"
    ELSE AfterDelete(t)
AfterUpload == "exit_checkout"

\* for filename in self._file_list: check_call([git, 'add', filename])
\* (every staged path exists: the body has just written it)
ExitAdd ==
    /\ pc = "exit"
    /\ add_idx <= Len(Cur.file_list)
    /\ LET filename == Cur.file_list[add_idx] IN
       \E ok \in BOOLEAN :
          /\ Logged(<<Exec("exit", Cmd(<<"git", "add">>) \o <<filename>>,
                           ok, FALSE, <<>>)>>)
          /\ IF ok
             THEN /\ index' = index \cup ({filename} \cap worktree)
                  /\ worktree' = worktree \ {filename}
                  /\ add_idx' = add_idx + 1
                  /\ UNCHANGED <<pc, exc>>
             ELSE /\ UNCHANGED <<index, worktree, add_idx>>
                  /\ Raise("CalledProcessError")
    /\ UNCHANGED <<locator, rewriter, driver, inputs, locals, head, branches, origin_master, tree, deps,
                   stash, cwd, cur, txn, pre>>

\* check_call([git, 'commit', '-q', '-m', self._message])
\* git commit exits non-zero when nothing is staged.
ExitCommit ==
    /\ pc = "exit"
    /\ add_idx > Len(Cur.file_list)
    /\ \E ok \in (IF index = {} THEN {FALSE} ELSE BOOLEAN) :
          /\ Logged(<<Exec("exit",
                           Cmd(<<"git", "commit", "-q", "-m">>)
                               \o <<Cur.message>>,
                           ok, FALSE, <<>>)>>)
          /\ IF ok
             THEN /\ tree' = SetTree(tree, NewCommit(Committed + 1),
                                     IF DepsFile \in index THEN deps
                                     ELSE tree[HeadCommit])
                  /\ IF head.kind = "branch"
                     THEN /\ branches' = SetBranch(branches, head.ref,
                                                   NewCommit(Committed + 1))
                          /\ head' = head
                     ELSE /\ branches' = branches
                          /\ head' = Detached(NewCommit(Committed + 1))
                  /\ index' = {}
                  /\ pc' = "exit_upload"
                  /\ exc' = exc
             ELSE /\ UNCHANGED <<tree, branches, head, index>>
                  /\ Raise("CalledProcessError")
    /\ UNCHANGED <<locator, rewriter, driver, inputs, locals, origin_master, deps, worktree, stash, cwd,
                   cur, txn, add_idx, pre>>

\* ExitSkipUpload, were the validation command printed whatever the bot list.
ExitSkipUploadAlwaysTry ==
    /\ pc = "exit_upload"
    /\ config.skip_cl_upload
    /\ Logged(<<Stdout("exit", git_cl), Stdout("exit", <<>>),
                Stdout("exit", git_try(Cur)), Stdout("exit", <<>>)>>)
    /\ SetCur("issue", <<>>)
    /\ pc' = AfterUpload
    /\ UNCHANGED <<locator, rewriter, driver, inputs, locals, repo, exc, cwd, cur, add_idx, pre>>

\* if self._config.skip_cl_upload: print the commands; self.issue = ''
ExitSkipUpload ==
    /\ pc = "exit_upload"
    /\ config.skip_cl_upload
    /\ Logged(<<Stdout("exit", git_cl), Stdout("exit", <<>>)>>
              \o (IF config.cl_bot_list # <<>>
                  THEN <<Stdout("exit", git_try(Cur)), Stdout("exit", <<>>)>>
                  ELSE <<>>))
    /\ SetCur("issue", <<>>)
    /\ pc' = AfterUpload
    /\ UNCHANGED <<locator, rewriter, driver, inputs, locals, repo, exc, cwd, cur, add_idx, pre>>

\* check_call(git_cl) if verbose, else quiet_check_call(git_cl)
ExitUpload ==
    /\ pc = "exit_upload"
    /\ ~config.skip_cl_upload
    /\ \E ok \in BOOLEAN :
          /\ Logged(<<Exec("exit", git_cl, ok, ~config.verbose, <<>>)>>
                    \o (IF ok /\ config.verbose
                        THEN <<Stdout("exit", <<>>)>> ELSE <<>>))
          /\ IF ok THEN pc' = "exit_issue" /\ exc' = exc
             ELSE Raise("CalledProcessError")
    /\ UNCHANGED <<locator, rewriter, driver, inputs, locals, repo, cwd, cur, txn, add_idx, pre>>

\* self.issue = strip_output([git, 'cl', 'issue'])
ExitIssue ==
    /\ pc = "exit_issue"
    /\ \/ /\ Logged(<<Exec("exit", Cmd(<<"git", "cl", "issue">>),
                           FALSE, FALSE, <<>>)>>)
          /\ Raise("CalledProcessError")
          /\ txn' = txn
       \/ \E out \in IssueOutputs :
             /\ Logged(<<Exec("exit", Cmd(<<"git", "cl", "issue">>),
                              TRUE, FALSE, out)>>)
             /\ SetCur("issue", strip_output(out))
             /\ pc' = IF config.cl_bot_list # <<>> THEN "exit_try"
                      ELSE AfterUpload
             /\ exc' = exc
    /\ UNCHANGED <<locator, rewriter, driver, inputs, locals, repo, cwd, cur, add_idx, pre>>

\* check_call(git_try) if verbose, else quiet_check_call(git_try)
ExitTry ==
    /\ pc = "exit_try"
    /\ \E ok \in BOOLEAN :
          /\ Logged(<<Exec("exit", git_try(Cur), ok, ~config.verbose, <<>>)>>
                    \o (IF ok /\ config.verbose
                        THEN <<Stdout("exit", <<>>)>> ELSE <<>>))
          /\ IF ok THEN pc' = AfterUpload /\ exc' = exc
             ELSE Raise("CalledProcessError")
    /\ UNCHANGED <<locator, rewriter, driver, inputs, locals, repo, cwd, cur, txn, add_idx, pre>>

\* ExitCheckout, were the recorded name checked out as it is.
ExitCheckoutUntranslated ==
    /\ pc = "exit_checkout"
    /\ LET target == Cur.original_branch
       IN
       /\ SetCur("original_branch", target)
       /\ \E ok \in (IF Resolvable(target) THEN BOOLEAN ELSE {FALSE}) :
             /\ Logged(<<Exec("exit",
                              Cmd(<<"git", "checkout", "-q">>) \o <<target>>,
                              ok, FALSE, <<>>)>>)
             /\ IF ok
                THEN /\ head' = Resolve(target)
                     /\ deps' = IF DepsFile \in worktree \cup index THEN deps
                                ELSE tree[CommitOf(head')]
                     /\ pc' = AfterCheckout(Cur)
                     /\ exc' = exc
                ELSE /\ UNCHANGED <<head, deps>>
                     /\ Raise("CalledProcessError")
    /\ UNCHANGED <<locator, rewriter, driver, inputs, locals, branches, origin_master, tree, worktree,
                   index, stash, cwd, cur, add_idx, pre>>

\* if default_branch_name == self._original_branch:
\*     self._original_branch = 'master'
\* check_call([git, 'checkout', '-q', self._original_branch])
ExitCheckout ==
    /\ pc = "exit_checkout"
    /\ LET target == IF default_branch_name = Cur.original_branch
                     THEN master ELSE Cur.original_branch
       IN
       /\ SetCur("original_branch", target)
       /\ \E ok \in (IF Resolvable(target) THEN BOOLEAN ELSE {FALSE}) :
             /\ Logged(<<Exec("exit",
                              Cmd(<<"git", "checkout", "-q">>) \o <<target>>,
                              ok, FALSE, <<>>)>>)
             /\ IF ok
                THEN /\ head' = Resolve(target)
                     /\ deps' = IF DepsFile \in worktree \cup index THEN deps
                                ELSE tree[CommitOf(head')]
                     /\ pc' = AfterCheckout(Cur)
                     /\ exc' = exc
                ELSE /\ UNCHANGED <<head, deps>>
                     /\ Raise("CalledProcessError")
    /\ UNCHANGED <<locator, rewriter, driver, inputs, locals, branches, origin_master, tree, worktree,
                   index, stash, cwd, cur, add_idx, pre>>

\* if default_branch_name == self._branch_name:
\*     check_call([git, 'branch', '-q', '-D', self._branch_name])
ExitDeleteBranch ==
    /\ pc = "exit_delete"
    /\ \E ok \in (IF head # OnBranch(Cur.branch_name)
                     /\ Cur.branch_name \in DOMAIN branches
                  THEN BOOLEAN ELSE {FALSE}) :
          /\ Logged(<<Exec("exit",
                           Cmd(<<"git", "branch", "-q", "-D">>)
                               \o <<Cur.branch_name>>,
                           ok, FALSE, <<>>)>>)
          /\ IF ok
             THEN /\ branches' = DropBranch(branches, Cur.branch_name)
                  /\ pc' = AfterDelete(Cur)
                  /\ exc' = exc
             ELSE /\ branches' = branches
                  /\ Raise("CalledProcessError")
    /\ UNCHANGED <<locator, rewriter, driver, inputs, locals, head, origin_master, tree, deps, worktree,
                   index, stash, cwd, cur, txn, add_idx, pre>>

\* if self._stash: check_call([git, 'stash', 'pop'])
\* (without --index, what was staged comes back as unstaged modifications)
ExitStashPop ==
    /\ pc = "exit_pop"
    /\ \E ok \in (IF stash # <<>> THEN BOOLEAN ELSE {FALSE}) :
          /\ Logged(<<Exec("exit", Cmd(<<"git", "stash", "pop">>),
                           ok, FALSE, <<>>)>>)
          /\ IF ok
             THEN /\ worktree' = worktree \cup Head(stash).worktree
                                     \cup Head(stash).index
                  /\ stash' = Tail(stash)
                  /\ pc' = WithEnd
                  /\ exc' = exc
             ELSE /\ UNCHANGED <<worktree, stash>>
                  /\ Raise("CalledProcessError")
    /\ UNCHANGED <<locator, rewriter, driver, inputs, locals, head, branches, origin_master, tree, deps,
                   index, cwd, cur, txn, add_idx, pre>>

-----------------------------------------------------------------------------
(* roll_deps, after the first transaction *)

\* whitespace_cl = codereview.issue (annotated with the branch, if any);
\* control_url_match = re.search('https?://[^) ]+', codereview.issue);
\* message = 'roll skia DEPS to %d ...'; branch = ...;
\* codereview = GitBranchCLUpload(config, message, branch)
RollManifest ==
    /\ pc = "after_control"
    /\ whitespace_cl' = IF branch \notin {None, <<>>}
                        THEN Annotate(txn[1].issue, branch)
                        ELSE txn[1].issue
    /\ message' = RollMessage(args.revision, search_url(txn[1].issue))
    /\ branch' = IF config.save_branches THEN branch_name(message') ELSE None
    /\ txn' = [txn EXCEPT ![2] = NewGitBranchCLUpload(message', branch')]
    /\ cur' = 2
    /\ pc' = "enter"
    /\ UNCHANGED <<locator, rewriter, driver, inputs, repo, saved_cwd, master_hash, result, exc, cwd,
                   add_idx, log, pre>>

\* deps_cl = codereview.issue (annotated with the branch, if any);
\* return deps_cl, whitespace_cl
RollReturn ==
    /\ pc = "after_manifest"
    /\ result' = <<IF branch \notin {None, <<>>}
                   THEN Annotate(txn[2].issue, branch)
                   ELSE txn[2].issue,
                   whitespace_cl>>
    /\ pc' = "finally"
    /\ UNCHANGED <<locator, rewriter, driver, inputs, repo, saved_cwd, master_hash, message, branch,
                   whitespace_cl, exc, cwd, cur, txn, add_idx, log, pre>>

\* RollFinally, were os.chdir(cwd) the last statement of roll_deps instead
\* of its finally clause.
RollFinallyNoRestore ==
    /\ pc = "finally"
    /\ cwd' = IF exc = "None" THEN saved_cwd ELSE cwd
    /\ pc' = IF exc = "None" THEN "done" ELSE "raised"
    /\ UNCHANGED <<locator, rewriter, driver, inputs, locals, repo, exc, cur, txn, add_idx, log,
                   pre>>

\* finally: os.chdir(cwd)
RollFinally ==
    /\ pc = "finally"
    /\ cwd' = saved_cwd
    /\ pc' = IF exc = "None" THEN "done" ELSE "raised"
    /\ UNCHANGED <<locator, rewriter, driver, inputs, locals, repo, exc, cur, txn, add_idx, log, pre>>

Next ==
    \/ RollChdir
    \/ RollFetch
    \/ RollShowRef
    \/ RollControl
    \/ EnterHasDiff
    \/ EnterStash
    \/ EnterOriginalBranch
    \/ EnterBranchExists
    \/ EnterCheckoutMaster
    \/ EnterDeleteBranch
    \/ EnterCheckoutNew
    \/ EnterSvnInfo
    \/ BodyControl
    \/ BodyManifest
    \/ ExitAdd
    \/ ExitCommit
    \/ ExitSkipUpload
    \/ ExitUpload
    \/ ExitIssue
    \/ ExitTry
    \/ ExitCheckout
    \/ ExitDeleteBranch
    \/ ExitStashPop
    \/ RollManifest
    \/ RollReturn
    \/ RollFinally

Spec == Init /\ [][Next]_vars

-----------------------------------------------------------------------------
(* The Skia repository and find_revision_and_hash *)

MaxHistory == 3
MaxDepth == 2

LocalSkia == "/src/skia"
TempDir == "/tmp/git_skia_tmp_1"

\* config.revision_format % n
revision_format(n) ==
    <<"git-svn-id:", " ", "http://skia.googlecode.com/svn/trunk@",
      ToString(n), " ">>

\* A commit message that carries the markers of the revisions ms, in order.
RECURSIVE MessageOf(_)
MessageOf(ms) ==
    IF ms = <<>> THEN <<"change", "\n">>
    ELSE MessageOf(SubSeq(ms, 1, Len(ms) - 1))
             \o <<"\n">> \o revision_format(ms[Len(ms)]) \o <<"uuid", "\n">>

\* A commit carries no marker, one, or two (its own and one it quotes).
MarkerLists == {<<>>, <<5>>, <<6>>, <<6, 5>>}
SkiaHash(k) ==
    CASE k = 1 -> "1a1a1a1a" [] k = 2 -> "2b2b2b2b" [] k = 3 -> "3c3c3c3c"
      [] OTHER -> "4d4d4d4d"
Histories ==
    UNION { { [k \in 1..n |-> [hash |-> SkiaHash(k), message |-> MessageOf(ms[k])]] :
                ms \in [1..n -> MarkerLists] } : n \in 1..MaxHistory }

Targets == {<<>>, <<-1>>, <<5>>, <<6>>, <<7>>}

\* Whether the tokens of pattern occur in s, one after the other, from i on.
OccursAt(s, pattern, i) ==
    /\ i + Len(pattern) - 1 <= Len(s)
    /\ SubSeq(s, i, i + Len(pattern) - 1) = pattern
Occurs(s, pattern) == \E i \in DOMAIN s : OccursAt(s, pattern, i)

\* re.search('git-svn-id: http://skia.googlecode.com/svn/trunk@([0-9]+) ',
\*           message).group(1); None if there is no match.
IsNumber(tok) == \E n \in 0..9 : tok = ToString(n)
SvnIdAt(s, i) ==
    /\ i + 4 <= Len(s)
    /\ SubSeq(s, i, i + 2) =
          <<"git-svn-id:", " ", "http://skia.googlecode.com/svn/trunk@">>
    /\ IsNumber(s[i + 3])
    /\ s[i + 4] = " "
search_svn_id(s) ==
    IF \E i \in DOMAIN s : SvnIdAt(s, i)
    THEN s[(CHOOSE i \in DOMAIN s :
                SvnIdAt(s, i) /\ \A k \in 1..(i - 1) : ~SvnIdAt(s, k)) + 3]
    ELSE "None"
\* int(tok)
int(tok) == CHOOSE n \in 0..9 : tok = ToString(n)

\* What `git log --grep <regex> --format=format:%H origin/master` prints: the
\* hash of every commit whose message matches, newest first, one per line.
RECURSIVE GrepHashes(_, _)
GrepHashes(history, regex) ==
    IF history = <<>> THEN <<>>
    ELSE LET rest == GrepHashes(Tail(history), regex) IN
         IF Occurs(Head(history).message, regex)
         THEN <<Head(history).hash>>
                  \o (IF rest = <<>> THEN <<>> ELSE <<"\n">> \o rest)
         ELSE rest

\* What `git clone --depth=<depth> --single-branch` fetches of a history.
Shallow(history, depth) ==
    SubSeq(history, 1, IF depth < Len(history) THEN depth ELSE Len(history))

\* roll_deps has not been called.
RollLocals ==
    /\ exc = "None"
    /\ cwd = CallerDir
    /\ saved_cwd = "None"
    /\ master_hash = None
    /\ whitespace_cl = None
    /\ result = <<>>
    /\ cur = 0
    /\ txn = [t \in 1..2 |-> NewGitBranchCLUpload(None, None)]
    /\ add_idx = 1
    /\ log = <<>>
RollRest ==
    /\ RollLocals
    /\ branches = BranchesWith({})
    /\ head = OnBranch(master)
    /\ origin_master = "c0ffee00aaaaaaaa"
    /\ tree = [c \in UpstreamTips \cup {LocalMaster, UserCommit} |->
                  IF c = UserCommit THEN UserDeps ELSE OldDeps]
    /\ deps = OldDeps
    /\ worktree = {}
    /\ index = {}
    /\ stash = <<>>
    /\ pre = Snapshot
    /\ called = [cwd |-> cwd, checkout |-> Snapshot]
RollNotCalled ==
    /\ pc = "idle"
    /\ message = None
    /\ branch = None
    /\ RollRest
RollIdle ==
    /\ args = [revision |-> 0, git_hash |-> <<>>]
    /\ RollNotCalled

InitLocate ==
    /\ config \in [save_branches : {FALSE}, skip_cl_upload : {FALSE},
                   verbose : {FALSE}, cl_bot_list : {<<>>},
                   chromium_path : {ChromiumPath},
                   skia_git_checkout_path : {"", LocalSkia},
                   search_depth : 1..MaxDepth,
                   git : {"git"}]
    /\ RollIdle
    /\ RewriterIdle
    /\ DriverIdle
    /\ lpc = "start"
    /\ lexc = "None"
    /\ revision_arg \in Targets
    /\ revision = revision_arg
    /\ skia_dir = "None"
    /\ use_temp = FALSE
    /\ git_hash = None
    /\ dirs = {ChromiumPath, CallerDir, LocalSkia}
    /\ skia_remote \in Histories
    /\ skia_master \in {Shallow(skia_remote, n) : n \in 1..Len(skia_remote)}

LocRaise(e) == lexc' = e /\ lpc' = "finally"

\* The executables --git_path may name: git, a program that exits non-zero
\* whatever its arguments, and a path at which there is no program.
GitPaths == {"git", "/bin/false", "/nonexistent/git"}
CanStart(exe) == exe # "/nonexistent/git"
ExitsZero(exe) == exe = "git"
\* Whether a command run with config.git may succeed.
Outcomes == IF ExitsZero(config.git) THEN BOOLEAN ELSE {FALSE}

\* depth = 1 if (revision is None) else config.search_depth
Depth == IF revision = <<>> THEN 1 ELSE config.search_depth

AfterCheckoutReady == IF revision = <<>> THEN "tip" ELSE "grep"

\* if config.skia_git_checkout_path: skia_dir = config.skia_git_checkout_path
LocStart ==
    /\ lpc = "start"
    /\ IF config.skia_git_checkout_path # ""
       THEN skia_dir' = config.skia_git_checkout_path /\ lpc' = "fetch"
       ELSE skia_dir' = skia_dir /\ lpc' = "mkdtemp"
    /\ UNCHANGED <<rollVars, rewriter, driver, lexc, revision_arg, revision, use_temp, git_hash, dirs,
                   skia_remote, skia_master>>

\* check_call([git, 'fetch', '-q', 'origin'], cwd=skia_dir)
LocFetch ==
    /\ lpc = "fetch"
    /\ \E ok \in Outcomes :
          IF ok
          THEN /\ skia_master' = skia_remote
               /\ lpc' = AfterCheckoutReady
               /\ lexc' = lexc
          ELSE /\ skia_master' = skia_master
               /\ LocRaise("CalledProcessError")
    /\ UNCHANGED <<rollVars, rewriter, driver, revision_arg, revision, skia_dir, use_temp, git_hash,
                   dirs, skia_remote>>

\* create_temp_skia_clone: skia_dir = tempfile.mkdtemp(prefix='git_skia_tmp_')
LocMkdtemp ==
    /\ lpc = "mkdtemp"
    /\ \E ok \in BOOLEAN :
          IF ok
          THEN dirs' = dirs \cup {TempDir} /\ lpc' = "clone" /\ lexc' = lexc
          ELSE dirs' = dirs /\ LocRaise("OSError")
    /\ UNCHANGED <<rollVars, rewriter, driver, revision_arg, revision, skia_dir, use_temp, git_hash,
                   skia_remote, skia_master>>

\* create_temp_skia_clone: check_call([git, 'clone', ...]); return skia_dir;
\* except (OSError, CalledProcessError): shutil.rmtree(skia_dir); raise
\* find_revision_and_hash: skia_dir = create_temp_skia_clone(...); use_temp = True
LocClone ==
    /\ lpc = "clone"
    /\ \E ok \in Outcomes :
          IF ok
          THEN /\ skia_master' = Shallow(skia_remote, Depth)
               /\ skia_dir' = TempDir
               /\ use_temp' = TRUE
               /\ dirs' = dirs
               /\ lpc' = AfterCheckoutReady
               /\ lexc' = lexc
          ELSE /\ dirs' = dirs \ {TempDir}
               /\ UNCHANGED <<skia_master, skia_dir, use_temp>>
               /\ LocRaise("CalledProcessError")
    /\ UNCHANGED <<rollVars, rewriter, driver, revision_arg, revision, git_hash, skia_remote>>

\* message = check_output([git, 'log', '-n', '1', '--format=format:%B',
\*                         'origin/master']); search = re.search(...)
\* if not search: raise DepsRollError; revision = int(search.group(1))
LocTipMessage ==
    /\ lpc = "tip"
    /\ \E ok \in Outcomes :
          IF ~ok THEN revision' = revision /\ LocRaise("CalledProcessError")
          ELSE LET found == search_svn_id(skia_master[1].message) IN
               IF found = "None"
               THEN revision' = revision /\ LocRaise("DepsRollError")
               ELSE /\ revision' = <<int(found)>>
                    /\ lpc' = "show_ref"
                    /\ lexc' = lexc
    /\ UNCHANGED <<rollVars, rewriter, driver, revision_arg, skia_dir, use_temp, git_hash, dirs,
                   skia_remote, skia_master>>

\* git_hash = strip_output([git, 'show-ref', 'origin/master', '--hash'])
LocShowRef ==
    /\ lpc = "show_ref"
    /\ \E ok \in Outcomes :
          IF ok
          THEN /\ git_hash' = strip_output(<<skia_master[1].hash, "\n">>)
               /\ lpc' = "check"
               /\ lexc' = lexc
          ELSE git_hash' = git_hash /\ LocRaise("CalledProcessError")
    /\ UNCHANGED <<rollVars, rewriter, driver, revision_arg, revision, skia_dir, use_temp, dirs,
                   skia_remote, skia_master>>

\* revision_regex = config.revision_format % revision
\* git_hash = strip_output([git, 'log', '--grep', revision_regex,
\*                          '--format=format:%H', 'origin/master'])
LocGrep ==
    /\ lpc = "grep"
    /\ \E ok \in Outcomes :
          IF ok
          THEN /\ git_hash' = strip_output(
                      GrepHashes(skia_master, revision_format(revision[1])))
               /\ lpc' = "check"
               /\ lexc' = lexc
          ELSE git_hash' = git_hash /\ LocRaise("CalledProcessError")
    /\ UNCHANGED <<rollVars, rewriter, driver, revision_arg, revision, skia_dir, use_temp, dirs,
                   skia_remote, skia_master>>

\* if revision < 0 or not git_hash: raise DepsRollError
\* return revision, git_hash
LocCheck ==
    /\ lpc = "check"
    /\ IF revision[1] < 0 \/ git_hash = <<>>
       THEN LocRaise("DepsRollError")
       ELSE lpc' = "finally" /\ lexc' = lexc
    /\ UNCHANGED <<rollVars, rewriter, driver, revision_arg, revision, skia_dir, use_temp, git_hash,
                   dirs, skia_remote, skia_master>>

\* LocFinally, were the temporary clone removed on the normal path only.
LocFinallyOnSuccess ==
    /\ lpc = "finally"
    /\ dirs' = IF use_temp /\ lexc = "None" THEN dirs \ {skia_dir} ELSE dirs
    /\ lpc' = IF lexc = "None" THEN "returned" ELSE "raised"
    /\ UNCHANGED <<rollVars, rewriter, driver, lexc, revision_arg, revision, skia_dir, use_temp,
                   git_hash, skia_remote, skia_master>>

\* finally: if use_temp: shutil.rmtree(skia_dir)
LocFinally ==
    /\ lpc = "finally"
    /\ dirs' = IF use_temp THEN dirs \ {skia_dir} ELSE dirs
    /\ lpc' = IF lexc = "None" THEN "returned" ELSE "raised"
    /\ UNCHANGED <<rollVars, rewriter, driver, lexc, revision_arg, revision, skia_dir, use_temp,
                   git_hash, skia_remote, skia_master>>

NextLocate ==
    \/ LocStart
    \/ LocFetch
    \/ LocMkdtemp
    \/ LocClone
    \/ LocTipMessage
    \/ LocShowRef
    \/ LocGrep
    \/ LocCheck
    \/ LocFinally

SpecLocate == InitLocate /\ [][NextLocate]_vars

-----------------------------------------------------------------------------
(* change_skia_deps *)

MaxLines == 2

TempName == "/tmp/skia_DEPS_ROLL_tmp_1"

\* A field of DEPS is five tokens: the key with its colon, a space, the
\* opening quote, the run of characters between the quotes (which may be the
\* empty run ""), and the closing quote with its comma.
RevKey == "\"skia_revision\":"
HashKey == "\"skia_hash\":"
Field(key, run) == <<key, " ", "\"", run, "\",">>

\* The runs that [0-9]* and [0-9a-f]* match in full.
DigitRuns == {"", "12000", "12345", "12346"}
HexRuns == DigitRuns \cup {"00112233445566aa", "0a1b2c3d4e5f6789"}
Runs == {"", "12000", "00112233445566aa", "xyz"}

\* deps_regex_rev / deps_regex_hash match at token i of line s.
MatchAt(s, i, key, runs) ==
    /\ i + 4 <= Len(s)
    /\ s[i] = key
    /\ s[i + 1] = " "
    /\ s[i + 2] = "\""
    /\ s[i + 3] \in runs
    /\ s[i + 4] = "\","

\* '"skia_revision": "%d",' % revision and '"skia_hash": "%s",' % git_hash
deps_regex_rev_repl(rev) == Field(RevKey, ToString(rev))
deps_regex_hash_repl(hash) == <<HashKey, " ", "\"">> \o hash \o <<"\",">>

\* sub, were the substitution made once per line (count=1).
sub_first(key, runs, repl, s) ==
    IF \E i \in DOMAIN s : MatchAt(s, i, key, runs)
    THEN LET i == CHOOSE i \in DOMAIN s :
                      /\ MatchAt(s, i, key, runs)
                      /\ \A k \in 1..(i - 1) : ~MatchAt(s, k, key, runs)
         IN  SubSeq(s, 1, i - 1) \o repl \o SubSeq(s, i + 5, Len(s))
    ELSE s

\* pattern.sub(repl, line): every match, leftmost first, none overlapping,
\* is replaced; what was substituted is not searched again.
RECURSIVE sub(_, _, _, _)
sub(key, runs, repl, s) ==
    IF s = <<>> THEN <<>>
    ELSE IF MatchAt(s, 1, key, runs)
         THEN repl \o sub(key, runs, repl, SubSeq(s, 6, Len(s)))
         ELSE <<Head(s)>> \o sub(key, runs, repl, Tail(s))

\* line = deps_regex_rev.sub(...); line = deps_regex_hash.sub(...)
RewriteLine(rev, hash, line) ==
    sub(HashKey, HexRuns, deps_regex_hash_repl(hash),
        sub(RevKey, DigitRuns, deps_regex_rev_repl(rev), line))

\* The lines a DEPS file may hold.
ManifestLines ==
    { <<" ", " ">> \o Field(RevKey, r) \o <<"\n">> : r \in Runs }
    \cup { <<" ", " ">> \o Field(HashKey, r) \o <<"\n">> : r \in Runs }
    \cup { Field(RevKey, "12000") \o <<" ">> \o Field(RevKey, r) \o <<"\n">> :
             r \in {"", "xyz"} }
    \cup { Field(HashKey, "12000") \o <<" ">> \o Field(HashKey, "00112233445566aa")
             \o <<"\n">> }
    \cup { Field(RevKey, "12000") \o <<" ">> \o Field(HashKey, r) \o <<"\n">> :
             r \in {"00112233445566aa", "xyz"} }
    \cup { <<"#", " ", "\"skia_revision\":", " ", "\"", "12000", "\"", "\n">>,
           <<"vars", " ", "=", " ", "{", "\n">> }
Manifests == UNION { [1..n -> ManifestLines] : n \in 0..MaxLines }

InitDeps ==
    /\ config \in [save_branches : {FALSE}, skip_cl_upload : {FALSE},
                   verbose : {FALSE}, cl_bot_list : {<<>>},
                   chromium_path : {ChromiumPath},
                   skia_git_checkout_path : {""},
                   search_depth : {search_depth_default},
                   git : {"git"}]
    /\ args \in [revision : Revisions, git_hash : GitHashes]
    /\ RollNotCalled
    /\ LocatorIdle
    /\ DriverIdle
    /\ dpc = "start"
    /\ dexc = "None"
    /\ manifest \in Manifests
    /\ manifest_called = manifest
    /\ temp_file = <<>>
    /\ tmpfiles = {}
    /\ line_no = 1

\* An exception leaves the try block of change_skia_deps: its finally clause
\* is next.
DepsRaise(e) == dexc' = e /\ dpc' = "close"

AfterLine(n) == IF n > Len(manifest) THEN "close" ELSE "loop"

\* temp_file = tempfile.NamedTemporaryFile(delete=False, prefix=...)
DepsTempFile ==
    /\ dpc = "start"
    /\ \E ok \in BOOLEAN :
          IF ok
          THEN tmpfiles' = tmpfiles \cup {TempName} /\ dpc' = "open" /\ dexc' = dexc
          ELSE tmpfiles' = tmpfiles /\ dpc' = "raised" /\ dexc' = "OSError"
    /\ temp_file' = <<>>
    /\ UNCHANGED <<rollVars, locator, driver, manifest, manifest_called, line_no>>

\* with open(depspath, 'r') as input_stream:
DepsOpen ==
    /\ dpc = "open"
    /\ \E ok \in BOOLEAN :
          IF ok THEN dpc' = AfterLine(1) /\ dexc' = dexc
          ELSE DepsRaise("IOError")
    /\ line_no' = 1
    /\ UNCHANGED <<rollVars, locator, driver, manifest, manifest_called, temp_file,
                   tmpfiles>>

\* for line in input_stream: line = ...sub(...); temp_file.write(line)
\* The line is read and written, or the read fails, or the write fails.
DepsLine ==
    /\ dpc = "loop"
    /\ \/ /\ temp_file' = Append(temp_file,
                                 RewriteLine(args.revision, args.git_hash,
                                             manifest[line_no]))
          /\ line_no' = line_no + 1
          /\ dpc' = AfterLine(line_no')
          /\ dexc' = dexc
       \/ /\ UNCHANGED <<temp_file, line_no>>
          /\ DepsRaise("IOError")
    /\ UNCHANGED <<rollVars, locator, driver, manifest, manifest_called, tmpfiles>>

\* finally: temp_file.close()
\* (closing writes what is still buffered, which may fail as a write does;
\* an exception already in flight is raised again after the close)
DepsClose ==
    /\ dpc = "close"
    /\ IF dexc # "None"
       THEN dpc' = "raised" /\ dexc' = dexc
       ELSE \E ok \in BOOLEAN :
               IF ok THEN dpc' = "move" /\ dexc' = dexc
               ELSE dpc' = "raised" /\ dexc' = "IOError"
    /\ UNCHANGED <<rollVars, locator, driver, manifest, manifest_called, temp_file,
                   tmpfiles, line_no>>

\* shutil.move(temp_file.name, depspath)
\* (a move that fails leaves both files as they were)
DepsMove ==
    /\ dpc = "move"
    /\ \E ok \in BOOLEAN :
          IF ok
          THEN /\ manifest' = temp_file
               /\ tmpfiles' = tmpfiles \ {TempName}
               /\ dpc' = "returned"
               /\ dexc' = dexc
          ELSE /\ UNCHANGED <<manifest, tmpfiles>>
               /\ dpc' = "raised"
               /\ dexc' = "shutil.Error"
    /\ UNCHANGED <<rollVars, locator, driver, manifest_called, temp_file, line_no>>

NextDeps ==
    \/ DepsTempFile
    \/ DepsOpen
    \/ DepsLine
    \/ DepsClose
    \/ DepsMove

SpecDeps == InitDeps /\ [][NextDeps]_vars

-----------------------------------------------------------------------------
(* branch_name *)

MaxMessage == 3

\* The commit messages of up to MaxMessage tokens.
MessageTokens == Whitespace \cup {"roll", "skia"}
Messages == UNION { [1..n -> MessageTokens] : n \in 0..MaxMessage }

InitName ==
    /\ config \in [save_branches : {TRUE}, skip_cl_upload : {FALSE},
                   verbose : {FALSE}, cl_bot_list : {<<>>},
                   chromium_path : {ChromiumPath},
                   skia_git_checkout_path : {""},
                   search_depth : {search_depth_default},
                   git : {"git"}]
    /\ args = [revision |-> 0, git_hash |-> <<>>]
    /\ pc = "name"
    /\ message \in Messages
    /\ branch = None
    /\ RollRest
    /\ LocatorIdle
    /\ RewriterIdle
    /\ DriverIdle

\* branch = branch_name(message)
BranchName ==
    /\ pc = "name"
    /\ branch' = branch_name(message)
    /\ pc' = "named"
    /\ UNCHANGED <<locator, rewriter, driver, inputs, repo, saved_cwd, master_hash,
                   message, whitespace_cl, result, exc, cwd, cur, txn, add_idx, log,
                   pre>>

NextName == BranchName

SpecName == InitName /\ [][NextName]_vars

-----------------------------------------------------------------------------
(* main and find_hash_and_roll_deps *)

NotADirectory == "/src/chromium/DEPS"

\* DepsRollConfig.__init__
DepsRollConfig(opts) ==
    LET NotEmpty(bot) == bot # "" IN
    [verbose |-> opts.verbose,
     save_branches |-> opts.save_branches,
     search_depth |-> opts.search_depth,
     chromium_path |-> opts.chromium_path,
     git |-> opts.git_path,
     skip_cl_upload |-> opts.skip_cl_upload,
     cl_bot_list |-> SelectSeq(opts.bots, NotEmpty),
     skia_git_checkout_path |-> opts.skia_git_path]

\* The histories of the Skia repository main is run against.
MainHistories ==
    { h \in Histories :
        /\ Len(h) <= 2
        /\ \A k \in DOMAIN h : h[k].message \in {MessageOf(<<>>), MessageOf(<<5>>)} }

InitMain ==
    /\ options \in [chromium_path : {"", NotADirectory, ChromiumPath},
                    git_path : GitPaths,
                    revision : {<<>>, <<5>>},
                    skia_git_path : {"", LocalSkia},
                    search_depth : {1},
                    save_branches : {FALSE},
                    verbose : {FALSE},
                    skip_cl_upload : BOOLEAN,
                    bots : {<<"linux", "", "mac">>}]
    /\ mpc = "start"
    /\ status = "None"
    /\ config = <<>>
    /\ args = [revision |-> 0, git_hash |-> <<>>]
    /\ pc = "idle"
    /\ message = None
    /\ branch = None
    /\ RollLocals
    /\ branches = BranchesWith(Leftovers)
    /\ head = OnBranch(master)
    /\ origin_master = "c0ffee00aaaaaaaa"
    /\ tree = [c \in UpstreamTips \cup {LocalMaster, UserCommit} |->
                  IF c = UserCommit THEN UserDeps ELSE OldDeps]
    /\ deps = OldDeps
    /\ worktree = {LocalEdit}
    /\ index = {}
    /\ stash = <<>>
    /\ pre = Snapshot
    /\ called = [cwd |-> cwd, checkout |-> Snapshot]
    /\ lpc = "idle"
    /\ lexc = "None"
    /\ revision_arg = <<>>
    /\ revision = <<>>
    /\ skia_dir = "None"
    /\ use_temp = FALSE
    /\ git_hash = None
    /\ dirs = {ChromiumPath, CallerDir, LocalSkia}
    /\ skia_remote \in MainHistories
    /\ skia_master = Shallow(skia_remote, 1)
    /\ RewriterIdle

\* option_parser.error(...): print the usage message and exit with status 2.
UsageError == mpc' = "exited" /\ status' = "2"

\* if not options.chromium_path: option_parser.error(...)
MainChromiumPath ==
    /\ mpc = "start"
    /\ IF options.chromium_path = "" THEN UsageError
       ELSE mpc' = "isdir" /\ status' = status
    /\ UNCHANGED <<rollVars, locator, rewriter, options>>

\* if not os.path.isdir(options.chromium_path): option_parser.error(...)
MainIsDir ==
    /\ mpc = "isdir"
    /\ IF options.chromium_path \notin dirs THEN UsageError
       ELSE mpc' = "test_git" /\ status' = status
    /\ UNCHANGED <<rollVars, locator, rewriter, options>>

\* test_git_executable: subprocess.call([git_executable, '--version']) raises
\* OSError when the program cannot be started; its return code is not looked
\* at.
test_git_executable(git_executable) == CanStart(git_executable)

\* if not test_git_executable(options.git_path): option_parser.error(...)
MainTestGit ==
    /\ mpc = "test_git"
    /\ IF ~test_git_executable(options.git_path) THEN UsageError
       ELSE mpc' = "config" /\ status' = status
    /\ UNCHANGED <<rollVars, locator, rewriter, options>>

\* config = DepsRollConfig(options); find_hash_and_roll_deps(config,
\* options.revision), which calls find_revision_and_hash(config, revision)
MainConfig ==
    /\ mpc = "config"
    /\ config' = DepsRollConfig(options)
    /\ revision_arg' = options.revision
    /\ revision' = options.revision
    /\ lpc' = "start"
    /\ mpc' = "locating"
    /\ UNCHANGED <<args, called, locals, repo, pc, exc, cwd, cur, txn, add_idx, log,
                   pre, lexc, skia_dir, use_temp, git_hash, dirs, skia_remote,
                   skia_master, rewriter, options, status>>

\* find_revision_and_hash has returned: print revision and hash, and call
\* roll_deps(config, revision, git_hash); or it has raised, and the exception
\* ends the process.
MainFound ==
    /\ mpc = "locating"
    /\ lpc \in {"returned", "raised"}
    /\ IF lpc = "returned"
       THEN /\ args' = [revision |-> revision[1], git_hash |-> git_hash]
            /\ pc' = "start"
            /\ mpc' = "rolling"
            /\ status' = status
       ELSE /\ UNCHANGED <<args, pc>>
            /\ mpc' = "exited"
            /\ status' = "1"
    /\ UNCHANGED <<config, called, locals, repo, exc, cwd, cur, txn, add_idx, log,
                   pre, locator, rewriter, options>>

\* roll_deps has returned: print the two issues; or it has raised.
MainRolled ==
    /\ mpc = "rolling"
    /\ pc \in {"done", "raised"}
    /\ mpc' = "exited"
    /\ status' = IF pc = "done" THEN "0" ELSE "1"
    /\ UNCHANGED <<rollVars, locator, rewriter, options>>

NextMain ==
    \/ MainChromiumPath
    \/ MainIsDir
    \/ MainTestGit
    \/ MainConfig
    \/ MainFound
    \/ MainRolled
    \/ NextLocate
    \/ Next

SpecMain == InitMain /\ [][NextMain]_vars

-----------------------------------------------------------------------------
(* GitBranchCLUpload, used by a caller that may stage paths at any time and *)
(* may enter the same object again                                          *)

MaxEntries == 2
MaxStaged == 2

\* How many times __enter__ has been called.
Entries ==
    Cardinality({i \in DOMAIN log : /\ log[i].phase = "enter"
                                    /\ log[i].argv[2] = <<"diff">>})

InitClient ==
    /\ config \in [save_branches : BOOLEAN, skip_cl_upload : BOOLEAN,
                   verbose : {FALSE}, cl_bot_list : {SubSeq(BotNames, 1, MaxBots)},
                   chromium_path : {ChromiumPath},
                   skia_git_checkout_path : {""},
                   search_depth : {search_depth_default},
                   git : {"git"}]
    /\ LocatorIdle
    /\ RewriterIdle
    /\ DriverIdle
    /\ args = [revision |-> 12345, git_hash |-> <<"0a1b2c3d4e5f6789">>]
    /\ pc = "client"
    /\ exc = "None"
    /\ cwd = ChromiumPath
    /\ saved_cwd = CallerDir
    /\ origin_master = "c0ffee00aaaaaaaa"
    /\ master_hash = <<origin_master>>
    /\ message = WhitespaceMessage(master_hash)
    /\ branch = IF config.save_branches THEN branch_name(message) ELSE None
    /\ whitespace_cl = None
    /\ result = <<>>
    /\ cur = 1
    /\ txn = [t \in 1..2 |-> IF t = 1 THEN NewGitBranchCLUpload(message, branch)
                             ELSE NewGitBranchCLUpload(None, None)]
    /\ add_idx = 1
    /\ \E c \in InitCheckouts : branches = c.branches /\ head = c.head
    /\ tree = [c \in UpstreamTips \cup {LocalMaster, UserCommit} |->
                  IF c = UserCommit THEN UserDeps ELSE OldDeps]
    /\ deps = tree[CommitOf(head)]
    /\ worktree \in {{}, {LocalEdit}}
    /\ index = {}
    /\ stash = <<>>
    /\ log = <<>>
    /\ pre = Snapshot
    /\ called = [cwd |-> cwd, checkout |-> Snapshot]

\* codereview.stage_for_commit('build/whitespace_file.txt'), called before
\* the with statement, inside it or after it
ClientStage ==
    /\ pc \in {"client", "body", "after_control"}
    /\ Len(Cur.file_list) < MaxStaged
    /\ SetCur("file_list", Append(Cur.file_list, WhitespaceFile))
    /\ UNCHANGED <<locator, rewriter, driver, inputs, locals, repo, pc, exc, cwd, cur,
                   add_idx, log, pre>>

\* with codereview: the first time, or once more after the with statement
\* has been left
ClientEnter ==
    /\ pc \in {"client", "after_control"}
    /\ Entries < MaxEntries
    /\ pc' = "enter"
    /\ UNCHANGED <<locator, rewriter, driver, inputs, locals, repo, exc, cwd, cur, txn,
                   add_idx, log, pre>>

NextClient ==
    \/ ClientStage
    \/ ClientEnter
    \/ EnterHasDiff
    \/ EnterStash
    \/ EnterOriginalBranch
    \/ EnterBranchExists
    \/ EnterCheckoutMaster
    \/ EnterDeleteBranch
    \/ EnterCheckoutNew
    \/ EnterSvnInfo
    \/ BodyControl
    \/ ExitAdd
    \/ ExitCommit
    \/ ExitSkipUpload
    \/ ExitUpload
    \/ ExitIssue
    \/ ExitTry
    \/ ExitCheckout
    \/ ExitDeleteBranch
    \/ ExitStashPop

SpecClient == InitClient /\ [][NextClient]_vars

-----------------------------------------------------------------------------
(* Reading the log *)

HasPrefix(e, words) ==
    /\ Len(e.argv) >= Len(words)
    /\ SubSeq(e.argv, 1, Len(words)) = Cmd(words)
IsExec(e, words) == e.kind = "exec" /\ HasPrefix(e, words)
IsPrinted(e, words) == e.kind = "print" /\ HasPrefix(e, words)

\* Positions of the log where transaction t ran, with success, the command
\* that starts with `words` during __exit__.
ExitOk(t, words) ==
    {i \in DOMAIN log : /\ log[i].tx = t
                        /\ log[i].phase = "exit"
                        /\ IsExec(log[i], words)
                        /\ log[i].ok}

\* The with statement of the current transaction has been left, or the
\* transaction before the current one is meant.
Over ==
    /\ cur >= 1
    /\ pc \in {"enter", "after_control", "after_manifest", "finally", "done",
               "raised"}
    /\ \E i \in DOMAIN log : log[i].phase = "enter"

\* The body of transaction t raised: __exit__ began with nothing staged.
BodyRaised(t) ==
    /\ txn[t].file_list = <<>>
    /\ \E i \in DOMAIN log : log[i].tx = t /\ log[i].phase = "exit"

\* The log holds the whole finalization of transaction t.
Finalized(t) ==
    /\ ExitOk(t, <<"git", "commit">>) # {}
    /\ IF config.skip_cl_upload
       THEN \E i \in DOMAIN log :
               log[i].tx = t /\ IsPrinted(log[i], <<"git", "cl", "upload">>)
       ELSE /\ ExitOk(t, <<"git", "cl", "upload">>) # {}
            /\ ExitOk(t, <<"git", "cl", "issue">>) # {}
            /\ config.cl_bot_list # <<>> => ExitOk(t, <<"git", "cl", "try">>) # {}
    /\ \E i \in ExitOk(t, <<"git", "checkout", "-q">>) :
          log[i].argv[4] = txn[t].original_branch
    /\ txn[t].branch_name = default_branch_name
          => ExitOk(t, <<"git", "branch", "-q", "-D">>) # {}
    /\ txn[t].stash => ExitOk(t, <<"git", "stash", "pop">>) # {}

-----------------------------------------------------------------------------
(* C1 *)

\* C1: on every exit path from a transaction (normal completion, an error
\* raised by the body, a git command failing during __enter__ or __exit__)
\* the checkout is on the branch or detached commit it was on before entry,
\* and the local modifications present before entry are in the working tree
\* again, the stash stack being what it was.
C1_RestoredOnEveryExit ==
    Over => /\ head = pre.head
            /\ stash = pre.stash
            /\ pre.worktree \subseteq worktree

-----------------------------------------------------------------------------
(* C2 *)

\* C2: when the body of a transaction raised, finalization still runs to its
\* end: once the with statement is left, the restoration target has been
\* checked out with success and the checkout is where it was before entry.
C2_RestoredAfterBodyError ==
    \A t \in 1..2 :
        (BodyRaised(t) /\ (cur > t \/ pc \in {"finally", "done", "raised"}))
            => /\ ExitOk(t, <<"git", "checkout", "-q">>) # {}
               /\ head = pre.head

-----------------------------------------------------------------------------
(* C3 *)

\* C3: at most one transaction is active at a time: whenever the manifest
\* transaction exists, the log holds the whole finalization of the control
\* transaction (commit, upload step, checkout of the restoration target,
\* branch delete if default-named, stash pop if stashed), and no command of
\* the control transaction follows a command of the manifest transaction.
C3_OneTransactionAtATime ==
    /\ cur = 2 => Finalized(1)
    /\ \A i \in 2..Len(log) : log[i - 1].tx = 2 => log[i].tx = 2
    /\ (\E i \in DOMAIN log : log[i].tx = 2) => cur = 2

\* The manifest transaction is active after a control transaction that
\* stashed local modifications and used the default branch name.
C3_Witness ==
    /\ cur = 2
    /\ pc = "body"
    /\ txn[1].stash
    /\ txn[1].branch_name = default_branch_name

-----------------------------------------------------------------------------
(* C4 *)

\* A URL of s: a scheme at i, then the longest non-empty run, up to j, of
\* tokens that are neither ")" nor " ".
IsUrl(s, i, j) ==
    /\ s[i] \in {"http://", "https://"}
    /\ i < j
    /\ \A k \in (i + 1)..j : s[k] # ")" /\ s[k] # " "
    /\ j < Len(s) => (s[j + 1] = ")" \/ s[j + 1] = " ")
UrlStarts(s) == {i \in DOMAIN s : \E j \in (i + 1)..Len(s) : IsUrl(s, i, j)}
ContainsUrl(s) == UrlStarts(s) # {}
IsFirstUrl(s, u) ==
    \E i \in UrlStarts(s) :
        /\ \A k \in UrlStarts(s) : i <= k
        /\ \E j \in (i + 1)..Len(s) : IsUrl(s, i, j) /\ u = SubSeq(s, i, j)

ControlAt(m) == {i \in DOMAIN m : m[i] = "control:"}

\* C4: the commit message of the manifest transaction holds the target
\* revision number; it holds a "control:" line if and only if the issue
\* descriptor of the finalized control transaction holds an http(s) URL,
\* and then what follows "control: " is the first URL of that descriptor;
\* with uploads skipped there is no control line.  The message given to
\* `git commit -m` is that message.
C4_ManifestMessage ==
    cur = 2 =>
        LET m == txn[2].message IN
        /\ \E i \in DOMAIN m : m[i] = ToString(args.revision)
        /\ ControlAt(m) # {} <=> ContainsUrl(txn[1].issue)
        /\ \A i \in ControlAt(m) :
              /\ m[i + 1] = " "
              /\ IsFirstUrl(txn[1].issue, SubSeq(m, i + 2, Len(m)))
        /\ config.skip_cl_upload => ControlAt(m) = {}
        /\ \A i \in DOMAIN log :
              (log[i].tx = 2 /\ IsExec(log[i], <<"git", "commit">>))
                  => log[i].argv[5] = m

\* The manifest transaction has committed with a message that holds a
\* control URL of more than one token after the scheme.
C4_Witness ==
    /\ cur = 2
    /\ ExitOk(2, <<"git", "commit">>) # {}
    /\ \E i \in ControlAt(txn[2].message) : Len(txn[2].message) > i + 3

-----------------------------------------------------------------------------
(* C5 *)

\* Transaction t has committed and is past the upload step of __exit__.
PastUpload(t) ==
    /\ ExitOk(t, <<"git", "commit">>) # {}
    /\ cur > t \/ pc # "exit_upload"
PrintedTry(t) ==
    \E i \in DOMAIN log :
        log[i].tx = t /\ IsPrinted(log[i], <<"git", "cl", "try">>)

\* C5 as stated: with uploads skipped, finalization prints the upload command
\* and a validation command.
C5_PrintsValidationCommand ==
    \A t \in 1..2 :
        (config.skip_cl_upload /\ PastUpload(t)) => PrintedTry(t)

\* C5, amended: with uploads skipped, finalization prints the upload command,
\* and the validation command if and only if the bot list is not empty; no
\* `git cl` command is ever executed; the issue descriptor is the empty
\* string; every staged path was added before the commit, and after the
\* commit the transaction runs the restoration commands and no other, the
\* checkout of the restoration target first.
C5_SkipUpload ==
    config.skip_cl_upload =>
        /\ \A i \in DOMAIN log : ~IsExec(log[i], <<"git", "cl">>)
        /\ \A t \in 1..2 :
              PastUpload(t) =>
                 /\ txn[t].issue = <<>>
                 /\ \E i \in DOMAIN log :
                       /\ log[i].tx = t
                       /\ log[i].kind = "print"
                       /\ log[i].argv = git_cl
                 /\ PrintedTry(t) <=> config.cl_bot_list # <<>>
                 /\ \A c \in ExitOk(t, <<"git", "commit">>) :
                       /\ \A k \in DOMAIN txn[t].file_list :
                             \E a \in ExitOk(t, <<"git", "add">>) :
                                /\ a < c
                                /\ log[a].argv[3] = txn[t].file_list[k]
                       /\ \A i \in (c + 1)..Len(log) :
                             (log[i].tx = t /\ log[i].kind = "exec")
                                => \/ IsExec(log[i], <<"git", "checkout", "-q">>)
                                   \/ IsExec(log[i], <<"git", "branch", "-q", "-D">>)
                                   \/ IsExec(log[i], <<"git", "stash", "pop">>)
                 /\ (cur > t \/ pc # "exit_checkout")
                       => \E i \in DOMAIN log :
                             /\ log[i].tx = t
                             /\ log[i].phase = "exit"
                             /\ IsExec(log[i], <<"git", "checkout", "-q">>)

\* A transaction with uploads skipped and an empty bot list is finalized.
C5_Witness ==
    /\ config.skip_cl_upload
    /\ config.cl_bot_list = <<>>
    /\ cur = 2
    /\ Finalized(1)
    /\ txn[1].issue = <<>>

-----------------------------------------------------------------------------
(* C6 *)

\* The log positions before i where transaction t ran, with success, the
\* command that starts with `words`.
OkBefore(t, words, i) ==
    {k \in 1..(i - 1) : log[k].tx = t /\ IsExec(log[k], words) /\ log[k].ok}

\* The revision that an output of `git svn info` reports.
ReportsRev(out, rev) ==
    \E k \in DOMAIN out :
        /\ k + 2 <= Len(out)
        /\ out[k] = "Last Changed Rev:"
        /\ out[k + 1] = " "
        /\ out[k + 2] = rev

Tried(t) ==
    \E i \in DOMAIN log : log[i].tx = t /\ IsExec(log[i], <<"git", "cl", "try">>)

\* C6: with uploads not skipped, `git cl try` is run if and only if the bot
\* list is not empty (in a finalization that gets as far as the restoration);
\* it is run only after `git cl upload` has succeeded and `git cl issue` has
\* been captured in the same transaction; its --revision is what `git svn
\* info` reported during __enter__ of the same transaction, and it names
\* every configured bot, in order, each after a -b.
C6_TryAfterUpload ==
    /\ \A i \in DOMAIN log :
          IsExec(log[i], <<"git", "cl", "try">>) =>
             LET t == log[i].tx IN
             /\ ~config.skip_cl_upload
             /\ config.cl_bot_list # <<>>
             /\ \E u \in OkBefore(t, <<"git", "cl", "upload">>, i) :
                \E k \in OkBefore(t, <<"git", "cl", "issue">>, i) :
                   /\ u < k
                   /\ txn[t].issue = strip(log[k].out)
             /\ \E e \in OkBefore(t, <<"git", "svn", "info">>, i) :
                   /\ log[e].phase = "enter"
                   /\ Len(log[i].argv[5]) = 1
                   /\ ReportsRev(log[e].out, log[i].argv[5][1])
             /\ Len(log[i].argv) = 5 + 2 * Len(config.cl_bot_list)
             /\ \A b \in DOMAIN config.cl_bot_list :
                   /\ log[i].argv[4 + 2 * b] = <<"-b">>
                   /\ log[i].argv[5 + 2 * b] = <<config.cl_bot_list[b]>>
    /\ \A t \in 1..2 :
          (/\ ~config.skip_cl_upload
           /\ \E i \in DOMAIN log :
                 /\ log[i].tx = t
                 /\ log[i].phase = "exit"
                 /\ IsExec(log[i], <<"git", "checkout", "-q">>))
             => (Tried(t) <=> config.cl_bot_list # <<>>)

\* The manifest transaction has run `git cl try` for a revision marker that
\* differs from the one the control transaction captured.
C6_Witness ==
    /\ cur = 2
    /\ ExitOk(2, <<"git", "cl", "try">>) # {}
    /\ txn[1].svn_info # txn[2].svn_info

-----------------------------------------------------------------------------
(* C7 *)

FailedInExit(i) ==
    log[i].kind = "exec" /\ log[i].phase = "exit" /\ ~log[i].ok

\* C7: a git command that exits non-zero during __exit__ is fatal: it is the
\* last command run (no retry, nothing after it), CalledProcessError
\* propagates out of roll_deps, and no later transaction begins: when the
\* control transaction's finalization fails, the manifest transaction is
\* never constructed nor entered, and DEPS is not rewritten.
C7_FinalizationFailureIsFatal ==
    \A i \in DOMAIN log :
        FailedInExit(i) =>
           /\ i = Len(log)
           /\ pc \in {"finally", "raised"}
           /\ exc = "CalledProcessError"
           /\ cur = log[i].tx
           /\ log[i].tx = 1 =>
                 /\ txn[2] = NewGitBranchCLUpload(None, None)
                 /\ DepsFile \notin worktree \cup index
                 /\ deps = tree[HeadCommit]

\* roll_deps has raised after `git cl upload` of the control transaction failed.
C7_Witness ==
    /\ pc = "raised"
    /\ log # <<>>
    /\ FailedInExit(Len(log))
    /\ log[Len(log)].tx = 1
    /\ IsExec(log[Len(log)], <<"git", "cl", "upload">>)

-----------------------------------------------------------------------------
(* C8 *)

\* C8: when roll_deps has returned or raised, the working directory of the
\* process is what it was when roll_deps was called.
C8_WorkingDirectoryRestored ==
    pc \in {"done", "raised"} => cwd = called.cwd

\* roll_deps has raised out of the manifest transaction, after it had changed
\* into the chromium checkout.
C8_Witness ==
    /\ pc = "raised"
    /\ cur = 2
    /\ saved_cwd # config.chromium_path
    /\ cwd = called.cwd

-----------------------------------------------------------------------------
(* C9 *)

\* C9: when find_revision_and_hash has returned or raised, the temporary
\* clone directory does not exist, and a configured local checkout is never
\* removed.
C9_TempCloneRemoved ==
    /\ lpc \in {"returned", "raised"} => TempDir \notin dirs
    /\ config.skia_git_checkout_path # ""
          => config.skia_git_checkout_path \in dirs

\* find_revision_and_hash has cloned into a temporary directory, has not
\* found the marker and has raised.
C9_Witness ==
    /\ lpc = "raised"
    /\ lexc = "DepsRollError"
    /\ use_temp
    /\ skia_dir = TempDir
    /\ TempDir \notin dirs

-----------------------------------------------------------------------------
(* C10 *)

\* The commits of the history that find_revision_and_hash searched whose
\* message carries the marker of revision n.
Carrying(n) ==
    {k \in DOMAIN skia_master :
        Occurs(skia_master[k].message, revision_format(n))}

\* C10: called with a revision_arg revision, find_revision_and_hash returns the
\* hash of the first commit of the searched history that carries the marker
\* of that revision - one hash, also when several commits carry it - and it
\* does not return when no commit carries it or the revision is negative.
C10_FirstMatchingHash ==
    (lpc = "returned" /\ revision_arg # <<>>) =>
        /\ revision_arg[1] >= 0
        /\ Carrying(revision_arg[1]) # {}
        /\ \E k \in Carrying(revision_arg[1]) :
              /\ \A k2 \in Carrying(revision_arg[1]) : k <= k2
              /\ git_hash = <<skia_master[k].hash>>

-----------------------------------------------------------------------------
(* C11 *)

\* The commits among the most recent search_depth commits of the Skia
\* repository's master whose message carries the marker of revision n.
WithinDepth(n) ==
    {k \in DOMAIN skia_remote :
        /\ k <= config.search_depth
        /\ Occurs(skia_remote[k].message, revision_format(n))}

\* C11: called with a revision that is not negative, find_revision_and_hash
\* returns only if a commit among the most recent search_depth commits
\* carries the marker of that revision, and raises DepsRollError only if
\* none does - with a temporary clone and with a local checkout alike.
C11_HonoursSearchDepth ==
    (revision_arg # <<>> /\ revision_arg[1] >= 0) =>
        /\ lpc = "returned" => WithinDepth(revision_arg[1]) # {}
        /\ (lpc = "raised" /\ lexc = "DepsRollError")
              => WithinDepth(revision_arg[1]) = {}

-----------------------------------------------------------------------------
(* C12 *)

\* C12: when change_skia_deps raises because reading depspath or writing the
\* temporary file has failed, the file at depspath holds what it held when
\* the function was called, and the temporary file does not exist.
C12_NoPartialFileNoTempFile ==
    (dpc = "raised" /\ dexc = "IOError") =>
        /\ manifest = manifest_called
        /\ TempName \notin tmpfiles

-----------------------------------------------------------------------------
(* C13 *)

\* The tokens of a line that are the run of a field the revision pattern
\* (the hash pattern) matches.
RevRuns(line) == {i + 3 : i \in {k \in DOMAIN line : MatchAt(line, k, RevKey, DigitRuns)}}
HashRuns(line) == {i + 3 : i \in {k \in DOMAIN line : MatchAt(line, k, HashKey, HexRuns)}}
Least(S) == {i \in S : \A k \in S : i <= k}

\* out is line with the runs at the positions revs replaced by the revision
\* and those at the positions hashes by the hash, and is otherwise line.
Replaced(line, out, revs, hashes) ==
    /\ Len(out) = Len(line)
    /\ \A i \in DOMAIN line :
          out[i] = IF i \in revs THEN ToString(args.revision)
                   ELSE IF i \in hashes THEN args.git_hash[1]
                   ELSE line[i]

-----------------------------------------------------------------------------
(* C14 *)

\* l is the first line of m: what precedes the first newline of m, or m
\* itself when it holds no newline.
IsFirstLine(m, l) ==
    /\ Len(l) <= Len(m)
    /\ l = SubSeq(m, 1, Len(l))
    /\ \A i \in DOMAIN l : l[i] # "\n"
    /\ Len(l) < Len(m) => m[Len(l) + 1] = "\n"

\* C14: branch_name(message) holds no whitespace character, and it is the
\* first line of message with each space replaced by an underscore.
C14_BranchName ==
    pc = "named" =>
        /\ \A i \in DOMAIN branch : branch[i] \notin Whitespace
        /\ \E l \in Messages :
              /\ IsFirstLine(message, l)
              /\ Len(branch) = Len(l)
              /\ \A i \in DOMAIN l :
                    branch[i] = IF l[i] = " " THEN "_" ELSE l[i]

-----------------------------------------------------------------------------
(* C15 *)

\* The invocation is one main has to reject: no consumer repository path,
\* one that is not a directory, or an executable whose --version cannot be
\* started or does not exit with status 0.
Rejectable ==
    \/ options.chromium_path = ""
    \/ options.chromium_path \notin dirs
    \/ ~CanStart(options.git_path)
    \/ ~ExitsZero(options.git_path)

\* C15: when the invocation is rejectable, main never gets past its
\* validation: find_revision_and_hash and roll_deps are never called, so no
\* git command that fetches, clones or changes a repository is run, and when
\* the process has exited its status is that of a usage error.
C15_UsageErrorBeforeCommands ==
    Rejectable =>
        /\ mpc \in {"start", "isdir", "test_git", "exited"}
        /\ mpc = "exited" => status = "2"
        /\ lpc = "idle"
        /\ pc = "idle"

-----------------------------------------------------------------------------
(* C16 *)

\* C16: a GitBranchCLUpload object moves only from unentered to active to
\* finalized: while it has not been entered, stage_for_commit has no effect
\* on it; its __exit__ runs commands only after an __enter__ of it has run
\* to its end; and once its __exit__ has run a command, no __enter__ of it
\* runs a command any more.
C16_EnteredOnce ==
    /\ (\A i \in DOMAIN log : log[i].phase # "enter")
          => \A t \in 1..2 : txn[t].file_list = <<>>
    /\ \A i \in DOMAIN log :
          (log[i].phase = "exit" /\ (i = 1 \/ log[i - 1].phase # "exit"))
             => /\ i > 1
                /\ log[i - 1].tx = log[i].tx
                /\ IsExec(log[i - 1], <<"git", "svn", "info">>)
                /\ log[i - 1].ok
    /\ \A i \in 2..Len(log) :
          (log[i - 1].phase = "exit" /\ log[i].phase = "enter")
             => log[i - 1].tx # log[i].tx

-----------------------------------------------------------------------------
(* C17 *)

\* What transaction t ran and printed during __exit__, in order.
ExitLog(t) ==
    LET InExit(e) == e.tx = t /\ e.phase = "exit" IN SelectSeq(log, InExit)

\* The with statement of transaction t has been left without an exception.
Completed(t) ==
    \/ t = 1 /\ cur = 2
    \/ t = cur /\ pc \in {"after_control", "after_manifest"}
    \/ t = 2 /\ cur = 2 /\ pc \in {"finally", "done"} /\ exc = "None"

Ran(argv) == [kind |-> "exec", argv |-> argv]
Wrote(line) == [kind |-> "print", argv |-> line]

\* The upload and validation step of transaction t, executed or printed.
UploadStep(t) ==
    LET bots == config.cl_bot_list # <<>>
        blank == IF config.verbose THEN <<Wrote(<<>>)>> ELSE <<>>
    IN  IF config.skip_cl_upload
        THEN <<Wrote(git_cl), Wrote(<<>>)>>
                 \o (IF bots THEN <<Wrote(git_try(txn[t])), Wrote(<<>>)>> ELSE <<>>)
        ELSE <<Ran(git_cl)>> \o blank \o <<Ran(Cmd(<<"git", "cl", "issue">>))>>
                 \o (IF bots THEN <<Ran(git_try(txn[t]))>> \o blank ELSE <<>>)

\* C17: in a finalization all of whose commands succeed, what __exit__ runs
\* and prints is, in this order and with nothing else: `git add` of every
\* staged path, in staging order; one `git commit` with the recorded message;
\* the upload and validation step, executed or printed; the checkout of the
\* restoration target; the deletion of the working branch if it has the
\* default name; `git stash pop` if __enter__ made a stash.
C17_FinalizationOrder ==
    \A t \in 1..2 :
        Completed(t) =>
           LET x == txn[t]
               done == ExitLog(t)
           IN  /\ \A i \in DOMAIN done : done[i].ok
               /\ [i \in DOMAIN done |->
                      [kind |-> done[i].kind, argv |-> done[i].argv]]
                  = [i \in DOMAIN x.file_list |->
                        Ran(Cmd(<<"git", "add">>) \o <<x.file_list[i]>>)]
                    \o <<Ran(Cmd(<<"git", "commit", "-q", "-m">>) \o <<x.message>>)>>
                    \o UploadStep(t)
                    \o <<Ran(Cmd(<<"git", "checkout", "-q">>)
                                \o <<x.original_branch>>)>>
                    \o (IF x.branch_name = default_branch_name
                        THEN <<Ran(Cmd(<<"git", "branch", "-q", "-D">>)
                                       \o <<x.branch_name>>)>>
                        ELSE <<>>)
                    \o (IF x.stash THEN <<Ran(Cmd(<<"git", "stash", "pop">>))>>
                        ELSE <<>>)

\* The manifest transaction, which stashed local modifications, used the
\* default branch name and ran the upload and the validation, is finalized.
C17_Witness ==
    /\ cur = 2
    /\ pc = "after_manifest"
    /\ txn[2].stash
    /\ txn[2].branch_name = default_branch_name
    /\ txn[2].file_list # <<>>
    /\ ~config.skip_cl_upload
    /\ config.cl_bot_list # <<>>

-----------------------------------------------------------------------------
(* C18 *)

\* C18: when __enter__ has run to its end, the checked-out branch is the
\* transaction's branch - the name given to the constructor, or the default
\* name when none was given - and it points at the tip of origin/master; if
\* a branch of that name existed before entry, __enter__ has deleted it.
C18_OnFreshBranch ==
    pc = "body" =>
        LET name == Cur.branch_name IN
        /\ name = IF branch \in {None, <<>>} THEN default_branch_name ELSE branch
        /\ head = OnBranch(name)
        /\ name \in DOMAIN branches
        /\ branches[name] = origin_master
        /\ name \in DOMAIN pre.branches
              => \E i \in DOMAIN log :
                    /\ log[i].tx = cur
                    /\ log[i].phase = "enter"
                    /\ log[i].ok
                    /\ log[i].argv = Cmd(<<"git", "branch", "-q", "-D">>) \o <<name>>

\* __enter__ has run to its end for a named branch that existed before
\* entry, was the checked-out branch and pointed at a commit of the user's.
C18_Witness ==
    /\ pc = "body"
    /\ Cur.branch_name # default_branch_name
    /\ pre.head = OnBranch(Cur.branch_name)
    /\ pre.branches[Cur.branch_name] # origin_master

-----------------------------------------------------------------------------
(* C19 *)

Annotated(descriptor) == \E i \in DOMAIN descriptor : descriptor[i] = "branch:"

\* C19: right after a finalization all of whose commands succeeded, the
\* transaction's working branch exists if and only if its name is not the
\* default name.  When roll_deps returns, each of the two descriptors it
\* returns is the transaction's issue followed by the name of the
\* transaction's branch if save_branches is configured, and that branch
\* exists in the checkout; it is the bare issue if save_branches is not
\* configured.
C19_BranchesKeptAndNamed ==
    /\ \A t \in 1..2 :
          (t = cur /\ pc \in {"after_control", "after_manifest"})
             => (txn[t].branch_name \in DOMAIN branches
                    <=> txn[t].branch_name # default_branch_name)
    /\ pc = "done" =>
          \A k \in 1..2 :
             LET x == txn[3 - k] IN
             /\ Annotated(result[k]) <=> config.save_branches
             /\ IF config.save_branches
                THEN /\ result[k] = Annotate(x.issue, x.branch_name)
                     /\ x.branch_name # default_branch_name
                     /\ x.branch_name \in DOMAIN branches
                ELSE result[k] = x.issue

\* roll_deps has returned with save_branches configured, in a checkout that
\* held a branch with the name of the control transaction's branch when
\* roll_deps was called.
C19_Witness ==
    /\ pc = "done"
    /\ config.save_branches
    /\ txn[1].branch_name \in DOMAIN called.checkout.branches
    /\ txn[1].issue # <<>>

-----------------------------------------------------------------------------
(* C20 *)

\* The log positions where transaction t recorded, during __enter__, what
\* HEAD was: `git symbolic-ref --short HEAD`, or `git rev-parse HEAD` when
\* that failed.
Recorded(t) ==
    {k \in DOMAIN log :
        /\ log[k].tx = t
        /\ log[k].phase = "enter"
        /\ log[k].ok
        /\ \/ IsExec(log[k], <<"git", "symbolic-ref">>)
           \/ IsExec(log[k], <<"git", "rev-parse">>)}

\* What HEAD was when the current __enter__ began: a branch name, or a
\* commit identifier.
HeadBefore == IF pre.head.kind = "branch" THEN pre.head.ref ELSE <<pre.commit>>

\* C20: the restoration target is recorded during __enter__, after the stash
\* if there is one and before any checkout: it is the name of the branch
\* that was checked out, or the commit identifier when HEAD was detached.
\* What __exit__ checks out is the recorded name, or master when the
\* recorded name is the default branch name; it is never the default branch
\* name.
C20_RestorationTarget ==
    /\ (cur >= 1 /\ pc \in {"enter_exists", "enter_co_master", "enter_del",
                             "enter_co_new", "enter_svn", "body", "exit",
                             "exit_upload", "exit_issue", "exit_try",
                             "exit_checkout"})
          => Cur.original_branch = HeadBefore
    /\ \A k \in Recorded(1) \cup Recorded(2) :
          \A i \in DOMAIN log :
             (log[i].tx = log[k].tx /\ log[i].phase = "enter")
                => /\ IsExec(log[i], <<"git", "stash", "save">>) => i < k
                   /\ IsExec(log[i], <<"git", "checkout">>) => k < i
    /\ \A i \in DOMAIN log :
          (log[i].phase = "exit" /\ IsExec(log[i], <<"git", "checkout">>))
             => /\ log[i].argv[4] # default_branch_name
                /\ \E k \in Recorded(log[i].tx) :
                      LET name == strip(log[k].out) IN
                      /\ k < i
                      /\ log[i].argv[4] = IF name = default_branch_name
                                          THEN master ELSE name
                      /\ log[i].tx = cur
                            => name = HeadBefore

\* A transaction entered on the default branch, left over by an earlier
\* run, is finalized: master has been checked out.
C20_Witness ==
    /\ cur = 1
    /\ pc = "after_control"
    /\ pre.head = OnBranch(default_branch_name)
    /\ txn[1].stash
    /\ head = OnBranch(master)

-----------------------------------------------------------------------------
(* C21 *)

\* The current transaction was entered on a branch of the user's, that is
\* on a branch whose name is not the default branch name.
EnteredOnUserBranch ==
    /\ cur >= 1
    /\ pre.head.kind = "branch"
    /\ pre.head.ref # default_branch_name

\* C21: when a transaction entered on a branch whose name is not the
\* default branch name has completed without an exception, that branch
\* exists, points at the commit it pointed at when __enter__ began, and is
\* the checked-out branch.
C21_UserBranchPreserved ==
    (EnteredOnUserBranch /\ Completed(cur)
        /\ pc \in {"after_control", "after_manifest"})
       => /\ pre.head.ref \in DOMAIN branches
          /\ branches[pre.head.ref] = pre.branches[pre.head.ref]
          /\ head = pre.head

\* The same, for the transactions whose working branch does not bear the
\* name of the branch they were entered on.
C21_OtherBranchPreserved ==
    (EnteredOnUserBranch /\ Completed(cur)
        /\ pc \in {"after_control", "after_manifest"}
        /\ Cur.branch_name # pre.head.ref)
       => /\ pre.head.ref \in DOMAIN branches
          /\ branches[pre.head.ref] = pre.branches[pre.head.ref]
          /\ head = pre.head

\* A transaction entered on a branch of the user's, with a working branch of
\* another name, has completed.
C21_OtherBranchWitness ==
    /\ EnteredOnUserBranch
    /\ pc = "after_control"
    /\ pre.head.ref = Feature
    /\ Cur.branch_name # pre.head.ref
    /\ head = pre.head

====
